---------------------------- MODULE Spec2Model ----------------------------
(***************************************************************************)
(* State-machine model of the project file-lifecycle manager               *)
(* (FileHandling/src/utils/Project.py, Context.py) and of the request      *)
(* handlers that drive it (FileHandling/src/routers/*.py).                  *)
(*                                                                         *)
(* File names are sequences of one-character strings so that splitext,     *)
(* lower(), endswith() and the name sort are computed as the code does.    *)
(***************************************************************************)
EXTENDS Integers, Sequences, FiniteSets, TLC

(***************************************************************************)
(* Bounds of the model.                                                    *)
(***************************************************************************)
\* number of clock ticks (one per operation or external change)
MaxTime == 3
\* number of external changes to the bucket directories in one behaviour
MaxExt == 1
\* the longest list of a diagram or of a change-set
MaxItems == 2
\* number of broadcast calls in one behaviour
MaxBroadcasts == 1
\* the longest list of files of one process_excel request
MaxFiles == 2
\* the largest number of words of a prompt
MaxWords == 3
\* the create_file calls and upload handlers that run side by side
MaxTasks == 2
\* the create_project and load_project handlers that run side by side
MaxHandlers == 2

(***************************************************************************)
(* Characters and strings.                                                 *)
(***************************************************************************)
\* the characters used by the model, in code-point order
Alphabet ==
  << " ", ".", "0", "1", "2", "3", "4", "5", "6", "7", "8", "9",
     "B", "C", "D", "E", "G", "J", "L", "M", "N", "O", "R", "S", "T", "U", "V", "Y",
     "_",
     "a", "b", "c", "d", "e", "g", "i", "j", "l", "m", "n", "o", "p", "q", "r", "s", "t",
     "u", "v", "x", "y" >>

AlphaSet == { Alphabet[i] : i \in 1..Len(Alphabet) }

\* ord(c), up to an order-preserving renumbering
Ord == [ c \in AlphaSet |-> CHOOSE i \in 1..Len(Alphabet) : Alphabet[i] = c ]

UpperToLower ==
  [ c \in {"B", "C", "D", "E", "G", "J", "L", "M", "N", "O", "R", "S", "T", "U", "V", "Y"} |->
      CASE c = "B" -> "b" [] c = "C" -> "c" [] c = "D" -> "d" [] c = "E" -> "e"
        [] c = "G" -> "g" [] c = "J" -> "j" [] c = "M" -> "m" [] c = "N" -> "n"
        [] c = "O" -> "o" [] c = "R" -> "r" [] c = "S" -> "s" [] c = "T" -> "t"
        [] c = "V" -> "v" [] c = "Y" -> "y" [] c = "L" -> "l" [] c = "U" -> "u" ]

\* str.lower()
Lower(s) == [ i \in 1..Len(s) |-> IF s[i] \in DOMAIN UpperToLower THEN UpperToLower[s[i]] ELSE s[i] ]

\* str.endswith(suffix)
EndsWith(s, suffix) ==
  /\ Len(s) >= Len(suffix)
  /\ SubSeq(s, Len(s) - Len(suffix) + 1, Len(s)) = suffix

\* a < b for Python strings: lexicographic by code point
RECURSIVE StrLess(_, _)
StrLess(a, b) ==
  IF b = << >> THEN FALSE
  ELSE IF a = << >> THEN TRUE
  ELSE IF a[1] # b[1] THEN Ord[a[1]] < Ord[b[1]]
  ELSE StrLess(Tail(a), Tail(b))

\* str(n) for a non-negative integer
RECURSIVE Digits(_)
Digits(n) ==
  LET d == << "0", "1", "2", "3", "4", "5", "6", "7", "8", "9" >>
  IN  IF n < 10 THEN << d[n + 1] >> ELSE Digits(n \div 10) \o << d[(n % 10) + 1] >>

\* str.replace(' ', '_')
ReplaceSpaces(s) == [ i \in 1..Len(s) |-> IF s[i] = " " THEN "_" ELSE s[i] ]

\* os.path.splitext on a name without directory separators: the extension
\* starts at the last dot unless only dots precede it
LastDot(s) ==
  LET dots == { i \in 1..Len(s) : s[i] = "." }
  IN  IF dots = {} THEN 0 ELSE CHOOSE i \in dots : \A j \in dots : j <= i

splitext(s) ==
  LET d == LastDot(s)
  IN  IF d > 0 /\ \E i \in 1..(d - 1) : s[i] # "."
        THEN [ root |-> SubSeq(s, 1, d - 1), ext |-> SubSeq(s, d, Len(s)) ]
        ELSE [ root |-> s, ext |-> << >> ]

\* Project._get_file_type_from_extension
get_file_type_from_extension(file_name) ==
  LET extension == Lower(splitext(file_name).ext)
  IN  CASE extension \in { <<".", "t", "x", "t">>, <<".", "m", "d">>, <<".", "c", "s", "v">> } -> "text"
        [] extension \in { <<".", "p", "n", "g">>, <<".", "j", "p", "g">>, <<".", "j", "p", "e", "g">>,
                           <<".", "g", "i", "f">>, <<".", "b", "m", "p">>, <<".", "s", "v", "g">> } -> "image"
        [] extension \in { <<".", "x", "l", "s", "x">>, <<".", "x", "l", "s">> } -> "excel"
        [] extension \in { <<".", "p", "d", "f">> } -> "pdf"
        [] extension \in { <<".", "j", "s", "o", "n">> } -> "json"
        [] extension \in { <<".", "h", "t", "m", "l">>, <<".", "h", "t", "m">> } -> "html"
        [] OTHER -> "file"

GeometrySuffix == << ".", "g", "e", "o", "m", "e", "t", "r", "y", ".", "j", "s", "o", "n" >>

\* faulty variant: the suffix is compared without lower-casing the name
IsGeometrySidecarExact(file_name) == EndsWith(file_name, GeometrySuffix)

\* the test of scan_and_update_files for a sidecar file
IsGeometrySidecar(file_name) == EndsWith(Lower(file_name), GeometrySuffix)

(***************************************************************************)
(* Paths and the file system.                                              *)
(***************************************************************************)
Buckets == { "input", "processed", "output" }

\* iteration order of dir_map / dest_dir_map
BucketOrder == << "input", "processed", "output" >>

BucketIndex(b) == CHOOSE i \in 1..3 : BucketOrder[i] = b

\* A directory is the sequence of its components, each component a string
\* (a sequence of pieces); a file path is a directory and a file name.
Root == << "/" >>

\* os.path.abspath(path): a relative path is resolved against the cwd
abspath(path) == IF path # << >> /\ path[1] = Root THEN path ELSE << Root, << "cwd" >> >> \o path

\* os.path.join(directory, sub_directory)
JoinDir(directory, sub) == Append(directory, sub)

\* os.path.join(directory, file_name)
Join(directory, file_name) == [ dir |-> directory, name |-> file_name ]

\* os.path.basename(path)
basename(path) == path.name

\* f"{n:x}"
RECURSIVE Hex(_)
Hex(n) ==
  LET d == << "0", "1", "2", "3", "4", "5", "6", "7", "8", "9", "a", "b", "c", "d", "e", "f" >>
  IN  IF n < 16 THEN << d[n + 1] >> ELSE Hex(n \div 16) \o << d[(n % 16) + 1] >>

\* s[-n:]
LastN(s, n) == IF Len(s) <= n THEN s ELSE SubSeq(s, Len(s) - n + 1, Len(s))

IdLen == 8

\* Project._generate_id for the millisecond timestamp t
generate_id(t) == LastN(Hex(t), IdLen)

\* f"{name.replace(' ', '_')}_{id}", the project folder name
ProjectFolder(name, id) == ReplaceSpaces(name) \o << "_" >> \o id

\* the directory fields of a Project with the given name, id and base_dir
Directories(name, id, base_dir) ==
  LET project_dir == JoinDir(base_dir, ProjectFolder(name, id))
  IN  [ project_dir |-> project_dir,
        input_dir |-> JoinDir(project_dir, << "input" >>),
        processed_dir |-> JoinDir(project_dir, << "processed" >>),
        output_dir |-> JoinDir(project_dir, << "output" >>) ]

\* Project.__init__ at time t: the identity and directory fields
NewProject(name, base_dir, t) ==
  LET id == generate_id(t)
      base == abspath(base_dir)
      d == Directories(name, id, base)
  IN  [ name |-> name, id |-> id, base_dir |-> base,
        project_dir |-> d.project_dir, input_dir |-> d.input_dir,
        processed_dir |-> d.processed_dir, output_dir |-> d.output_dir,
        created_date |-> t, description |-> "", tags |-> << >> ]

\* dir_map / dest_dir_map
BucketDir(id, b) ==
  CASE b = "input" -> id.input_dir
    [] b = "processed" -> id.processed_dir
    [] b = "output" -> id.output_dir

FilePath(id, b, n) == Join(BucketDir(id, b), n)

MetaName == << "project_metadata.json" >>
MetaPath(id) == Join(id.project_dir, MetaName)

\* bucket whose directory is `directory`, or "none"
BucketOfDir(id, directory) ==
  IF \E b \in Buckets : BucketDir(id, b) = directory
    THEN CHOOSE b \in Buckets : BucketDir(id, b) = directory
    ELSE "none"

\* a file that exists outside the project directories
OutsidePath == Join(<< Root, << "tmp" >> >>, << "x", ".", "m", "d" >>)

\* os.path.exists(path), for a state s with fields ident, disk, dirs
Exists(s, path) ==
  \/ path = OutsidePath
  \/ LET b == BucketOfDir(s.ident, path.dir)
     IN  b # "none" /\ b \in s.dirs /\ path.name \in DOMAIN s.disk[b]

\* os.path.isfile(path)
IsFile(s, path) ==
  \/ path = OutsidePath
  \/ LET b == BucketOfDir(s.ident, path.dir)
     IN  b # "none" /\ b \in s.dirs /\ path.name \in DOMAIN s.disk[b]
           /\ s.disk[b][path.name].kind = "file"

\* a regular file written at time t
NewFile(content, t) == [ kind |-> "file", content |-> content, ctime |-> t, mtime |-> t ]

\* the function f extended or overwritten at key k
Put(f, k, v) == [ x \in (DOMAIN f) \cup {k} |-> IF x = k THEN v ELSE f[x] ]

\* the function f without key k
Drop(f, k) == [ x \in (DOMAIN f) \ {k} |-> f[x] ]

\* datetime.isoformat() and datetime.fromisoformat()
isoformat(t) == [ iso |-> t ]
fromisoformat(str) == str.iso

(***************************************************************************)
(* Context (utils/Context.py).                                             *)
(***************************************************************************)
EmptyRequirements ==
  [ input_description |-> "", output_description |-> "",
    features |-> << >>, further_requirements |-> "" ]

CsvExt == << ".", "c", "s", "v" >>
ImageExts == { << ".", "p", "n", "g" >>, << ".", "j", "p", "g" >>, << ".", "j", "p", "e", "g" >> }

\* Project.get_csv_dirs and Project.get_image_dirs
get_csv_dirs(s) ==
  LET recs == SelectSeq(s.files["processed"], LAMBDA f : EndsWith(Lower(f.path.name), CsvExt))
  IN  [ i \in 1..Len(recs) |-> recs[i].path ]

get_image_dirs(s) ==
  LET recs == SelectSeq(s.files["processed"],
                        LAMBDA f : \E e \in ImageExts : EndsWith(Lower(f.path.name), e))
  IN  [ i \in 1..Len(recs) |-> recs[i].path ]

\* update_from_project, had it rebuilt the requirements and the tech stack
\* along with the descriptions
update_from_project_resetting(s) ==
  [ s EXCEPT !.context = [ @ EXCEPT !.project_name = s.ident.name,
                                    !.csv_description = << >>,
                                    !.ui_image = get_image_dirs(s),
                                    !.diagram_image = get_image_dirs(s),
                                    !.requirements = EmptyRequirements,
                                    !.tech_stack = "" ] ]

\* Context.update_from_project: the CSV texts that can be read, and the image
\* paths; requirements, tech_stack and the generated caches are not touched
update_from_project(s) ==
  LET readable == SelectSeq(get_csv_dirs(s), LAMBDA p : IsFile(s, p))
      texts == [ i \in 1..Len(readable) |->
                   s.disk[BucketOfDir(s.ident, readable[i].dir)][readable[i].name].content ]
      all_images == get_image_dirs(s)
  IN  [ s EXCEPT !.context = [ @ EXCEPT !.project_name = s.ident.name,
                                        !.csv_description = texts,
                                        !.ui_image = all_images,
                                        !.diagram_image = all_images ] ]

\* Context.__init__
NewContext(s) ==
  update_from_project(
    [ s EXCEPT !.context = [ project_name |-> << >>, csv_description |-> << >>,
                             ui_image |-> << >>, diagram_image |-> << >>,
                             requirements |-> EmptyRequirements, tech_stack |-> "",
                             prototype_code |-> "" ] ])

\* Context.update_requirements_and_stack
update_requirements_and_stack(s, input_desc, output_desc, features, further_reqs, tech_stack) ==
  [ s EXCEPT !.context.requirements = [ input_description |-> input_desc,
                                        output_description |-> output_desc,
                                        features |-> features,
                                        further_requirements |-> further_reqs ],
             !.context.tech_stack = tech_stack ]

\* Context.set_prototype_code
set_prototype_code(s, html_code) == [ s EXCEPT !.context.prototype_code = html_code ]

(***************************************************************************)
(* Project (utils/Project.py).                                             *)
(***************************************************************************)
EmptyFiles == [ b \in Buckets |-> << >> ]

\* Project.to_dict
to_dict(s) ==
  [ name |-> s.ident.name,
    id |-> s.ident.id,
    created_date |-> isoformat(s.ident.created_date),
    modified_date |-> isoformat(s.modified_date),
    description |-> s.ident.description,
    tags |-> s.ident.tags,
    directories |-> [ base |-> s.ident.base_dir,
                      project |-> s.ident.project_dir,
                      input |-> s.ident.input_dir,
                      processed |-> s.ident.processed_dir,
                      output |-> s.ident.output_dir ],
    files |-> s.files,
    processing_history |-> s.processing_history,
    requirements |-> s.context.requirements,
    tech_stack |-> s.context.tech_stack ]

\* the paths a rescan of bucket b has to track: the regular files of the
\* directory that are not geometry sidecars
TrackablePaths(s, b) ==
  IF b \in s.dirs
    THEN { FilePath(s.ident, b, n) :
             n \in { m \in DOMAIN s.disk[b] :
                      /\ s.disk[b][m].kind = "file"
                      /\ ~EndsWith(Lower(m), GeometrySuffix) } }
    ELSE {}

\* one entry of the event log of a request
Event(tag) == [ tag |-> tag ]

\* Project._broadcast_update: the payload sent, with the trackable paths on
\* disk at that moment
BroadcastEvent(s) ==
  [ tag |-> "broadcast", payload |-> to_dict(s),
    ondisk |-> [ b \in Buckets |-> TrackablePaths(s, b) ] ]

broadcast_update(s) == [ s EXCEPT !.log = Append(@, BroadcastEvent(s)) ]

\* the record scan_and_update_files builds for one file
FileRecord(s, b, file_name) ==
  [ path |-> FilePath(s.ident, b, file_name),
    name |-> file_name,
    type |-> get_file_type_from_extension(file_name),
    added_date |-> isoformat(s.disk[b][file_name].ctime),
    modified_date |-> isoformat(s.disk[b][file_name].mtime),
    size |-> Len(s.disk[b][file_name].content) ]

\* the loop body of scan_and_update_files over one directory listing
RECURSIVE ScanListing(_, _, _, _)
ScanListing(s, b, listing, acc) ==
  IF listing = << >> THEN acc
  ELSE LET file_name == Head(listing)
           file_path == FilePath(s.ident, b, file_name)
           keep == /\ s.disk[b][file_name].kind = "file"
                   /\ ~IsGeometrySidecar(file_name)
                   /\ ~\E i \in 1..Len(acc) : acc[i].path = file_path
       IN  ScanListing(s, b, Tail(listing),
                       IF keep THEN Append(acc, FileRecord(s, b, file_name)) ELSE acc)

\* sorted(records, key=lambda x: x['name']): a stable insertion sort
RECURSIVE InsertByName(_, _)
InsertByName(sorted, r) ==
  IF sorted = << >> THEN << r >>
  ELSE IF StrLess(r.name, Head(sorted).name) THEN << r >> \o sorted
  ELSE << Head(sorted) >> \o InsertByName(Tail(sorted), r)

RECURSIVE SortByName(_)
SortByName(records) ==
  IF records = << >> THEN << >>
  ELSE InsertByName(SortByName(SubSeq(records, 1, Len(records) - 1)), records[Len(records)])

\* the names of a set in ascending order
RECURSIVE Ascending(_)
Ascending(names) ==
  IF names = {} THEN << >>
  ELSE LET least == CHOOSE n \in names : \A m \in names \ {n} : StrLess(n, m)
       IN  << least >> \o Ascending(names \ {least})

\* the k-th permutation of a sequence (factorial number system)
RECURSIVE NthPerm(_, _)
NthPerm(seq, k) ==
  IF seq = << >> THEN << >>
  ELSE LET i == (k % Len(seq)) + 1
           rest == SubSeq(seq, 1, i - 1) \o SubSeq(seq, i + 1, Len(seq))
       IN  << seq[i] >> \o NthPerm(rest, k \div Len(seq))

\* os.listdir(directory): the names of the directory in an arbitrary order,
\* the order-th permutation of the names
listdir(s, b, order) == NthPerm(Ascending(DOMAIN s.disk[b]), order)

\* faulty variant: the records found are appended to the previous list of
\* the bucket, which is neither reset nor consulted
ScanBucketAppending(s, b, order) ==
  IF b \in s.dirs
    THEN SortByName(s.files[b] \o ScanListing(s, b, listdir(s, b, order), << >>))
    ELSE s.files[b]

\* faulty variant: the records are left in the order of the listing
ScanBucketUnsorted(s, b, order) ==
  IF b \in s.dirs THEN ScanListing(s, b, listdir(s, b, order), << >>) ELSE << >>

\* the new list of bucket b
ScanBucket(s, b, order) ==
  IF b \in s.dirs THEN SortByName(ScanListing(s, b, listdir(s, b, order), << >>)) ELSE << >>

NoFault == "none"

\* the single element of a singleton set; Only({ e(x) : x \in { v } }) is
\* e(v) with v computed once
Only(S) == CHOOSE x \in S : TRUE

\* scan_and_update_files after the loop over the directories
AfterScanLoop(scanned, t) ==
  Only({ broadcast_update([ refreshed EXCEPT !.log = Append(@, Event("context")) ]) :
         refreshed \in { update_from_project(
                           [ scanned EXCEPT !.log = Append(@, Event("rescan")),
                                            !.modified_date = t ]) } })

\* Project.scan_and_update_files at time t.  fault is NoFault or the bucket
\* whose os.listdir raises; the exception leaves the buckets before it
\* rescanned and the others empty, and skips the date, context and broadcast.
\* Result: [st, raised].
scan_and_update_files(s, order, fault, t) ==
  Only({ LET raises == fault \in Buckets /\ fault \in s0.dirs
             stop == IF raises THEN BucketIndex(fault) ELSE 4
         IN  Only({ IF raises
                      THEN [ st |-> scanned, raised |-> TRUE ]
                      ELSE [ st |-> AfterScanLoop(scanned, t), raised |-> FALSE ] :
                    scanned \in { [ s0 EXCEPT !.files = [ b \in Buckets |->
                                      IF BucketIndex(b) < stop
                                        THEN ScanBucket(s0, b, order) ELSE << >> ] ] } }) :
         s0 \in { s } })

\* the faults of one call: list is NoFault or the bucket whose os.listdir
\* raises, sys tells whether the open / os.remove / os.rename of the call raises
Faults(list, sys) == [ list |-> list, sys |-> sys ]

\* Project.create_directory_structure: os.makedirs of the four directories,
\* or an exception before the first one
create_directory_structure(s, fails) ==
  IF fails THEN [ st |-> s, ok |-> FALSE ]
  ELSE [ st |-> [ s EXCEPT !.dirs = {"project"} \cup Buckets ], ok |-> TRUE ]

\* is file_path tracked in bucket b
Tracked(s, b, file_path) == \E i \in 1..Len(s.files[b]) : s.files[b][i].path = file_path

\* the try block that add_file, delete_file and rename_file end with:
\* scan_and_update_files, then modified_date; an exception gives False
RescanInTry(s, order, f, t) ==
  Only({ IF sc.raised THEN [ st |-> sc.st, ok |-> FALSE, raised |-> FALSE ]
         ELSE [ st |-> [ sc.st EXCEPT !.modified_date = t ], ok |-> TRUE, raised |-> FALSE ] :
         sc \in { scan_and_update_files(s, order, f.list, t) } })

\* Project.add_file.  Result: [st, ok].
add_file(s, file_path, file_type, order, f, t) ==
  IF file_type \notin Buckets THEN [ st |-> s, ok |-> FALSE ]
  ELSE IF ~Exists(s, file_path) THEN [ st |-> s, ok |-> FALSE ]
  ELSE IF Tracked(s, file_type, file_path) THEN [ st |-> s, ok |-> TRUE ]
  ELSE Only({ [ st |-> r.st, ok |-> r.ok ] : r \in { RescanInTry(s, order, f, t) } })

\* the while loop of create_file: current_file_name once new_file_path is
\* free; counter 0 stands for the name as given
RECURSIVE FreeName(_, _, _, _)
FreeName(s, b, file_name, counter) ==
  LET sp == splitext(file_name)
      current_file_name ==
        IF counter = 0 THEN file_name
        ELSE sp.root \o << "_" >> \o Digits(counter) \o sp.ext
  IN  IF Exists(s, FilePath(s.ident, b, current_file_name))
        THEN FreeName(s, b, file_name, counter + 1)
        ELSE current_file_name

NoPath == Join(<< >>, << >>)

\* Project.create_file.  Result: [st, ok, path, added]; ok is FALSE for a
\* None result, added is the result of the inner add_file, which is ignored.
create_file(s, file_name, file_type, content, order, f, t) ==
  IF file_type \notin Buckets \/ file_type \notin s.dirs \/ f.sys
    \* an invalid file_type, or open raises
    THEN [ st |-> s, ok |-> FALSE, path |-> NoPath, added |-> FALSE ]
  ELSE Only({ Only({ [ st |-> added.st, ok |-> TRUE,
                       path |-> FilePath(s.ident, file_type, current_file_name),
                       added |-> added.ok ] :
                     added \in { add_file(
                                   [ s EXCEPT !.disk[file_type] =
                                                Put(@, current_file_name, NewFile(content, t)),
                                              !.log = Append(@, Event("disk")) ],
                                   FilePath(s.ident, file_type, current_file_name),
                                   file_type, order, f, t) } }) :
              current_file_name \in { FreeName(s, file_type, file_name, 0) } })

\* the records of bucket b named file_name, in list order
Named(s, b, file_name) == SelectSeq(s.files[b], LAMBDA r : r.name = file_name)

\* delete_file, had it removed the file of that name when no record has it
delete_file_unlinking_unknown(s, file_name, file_type, order, f, t) ==
  IF file_type \notin Buckets THEN [ st |-> s, ok |-> FALSE ]
  ELSE [ st |-> [ s EXCEPT !.disk[file_type] = Drop(@, file_name) ],
         ok |-> Named(s, file_type, file_name) # << >> ]

\* Project.delete_file: the first record with the name decides.  Result: [st, ok].
delete_file(s, file_name, file_type, order, f, t) ==
  IF file_type \notin Buckets THEN [ st |-> s, ok |-> FALSE ]
  ELSE IF Named(s, file_type, file_name) = << >> THEN [ st |-> s, ok |-> FALSE ]
  ELSE LET path == Named(s, file_type, file_name)[1].path
           b == BucketOfDir(s.ident, path.dir)
       IN  \* os.remove raises for a missing path and for a directory
           IF b = "none" \/ ~IsFile(s, path) \/ f.sys THEN [ st |-> s, ok |-> FALSE ]
           ELSE Only({ [ st |-> r.st, ok |-> r.ok ] :
                       r \in { RescanInTry([ s EXCEPT !.disk[b] = Drop(@, path.name),
                                                      !.log = Append(@, Event("disk")) ],
                                           order, f, t) } })

\* os.rename(old_path, new_path) within one bucket directory
Renamed(s, b, old_name, new_name) ==
  [ s EXCEPT !.disk[b] = Put(Drop(@, old_name), new_name, s.disk[b][old_name]),
             !.log = Append(@, Event("disk")) ]

\* faulty variant: os.rename is reached although the destination exists, and
\* replaces it
RenameTailOverwriting(s, old_path, new_name, file_type, order, f, t) ==
  \* os.rename raises for a missing source
  IF BucketOfDir(s.ident, old_path.dir) # file_type \/ ~Exists(s, old_path) \/ f.sys
    THEN [ st |-> s, ok |-> FALSE, raised |-> FALSE ]
  ELSE RescanInTry(Renamed(s, file_type, old_path.name, new_name), order, f, t)

\* Project.rename_file, lines 312-325: the destination check, os.rename and
\* the rescan, from state s in which old_path is the record's path
RenameTail(s, old_path, new_name, file_type, order, f, t) ==
  IF Exists(s, FilePath(s.ident, file_type, new_name))
    THEN [ st |-> s, ok |-> FALSE, raised |-> FALSE ]
  \* os.rename raises for a missing source
  ELSE IF BucketOfDir(s.ident, old_path.dir) # file_type \/ ~Exists(s, old_path) \/ f.sys
    THEN [ st |-> s, ok |-> FALSE, raised |-> FALSE ]
  ELSE RescanInTry(Renamed(s, file_type, old_path.name, new_name), order, f, t)

\* Project.rename_file.  The rescan for a record whose file is missing is
\* outside every try block.  Result: [st, ok, raised].
rename_file(s, file_name, new_name, file_type, order, f, t) ==
  IF file_type \notin Buckets THEN [ st |-> s, ok |-> FALSE, raised |-> FALSE ]
  ELSE IF Named(s, file_type, file_name) = << >> THEN [ st |-> s, ok |-> FALSE, raised |-> FALSE ]
  ELSE LET old_path == Named(s, file_type, file_name)[1].path
       IN  IF Exists(s, old_path)
             THEN RenameTail(s, old_path, new_name, file_type, order, f, t)
           ELSE Only({ IF sc.raised THEN [ st |-> sc.st, ok |-> FALSE, raised |-> TRUE ]
                       ELSE IF ~\E i \in 1..Len(sc.st.files[file_type]) :
                                  /\ sc.st.files[file_type][i].name = file_name
                                  /\ sc.st.files[file_type][i].path = old_path
                         THEN [ st |-> sc.st, ok |-> FALSE, raised |-> FALSE ]
                       ELSE RenameTail(sc.st, old_path, new_name, file_type, order, f, t) :
                       sc \in { scan_and_update_files(s, order, f.list, t) } })

\* the metadata file: absent, unparsable, or a JSON document
NoMeta == [ kind |-> "absent" ]
CorruptMeta == [ kind |-> "corrupt" ]
JsonDocument(doc) == [ kind |-> "json", doc |-> doc ]

\* faulty variant: the broadcast that save_metadata leaves out is sent after
\* the file is written
save_metadata_then_broadcast(s, fault) ==
  IF "project" \notin s.dirs \/ fault = "open" THEN [ st |-> s, ok |-> FALSE ]
  ELSE IF fault = "dump" THEN [ st |-> [ s EXCEPT !.meta = CorruptMeta ], ok |-> FALSE ]
  ELSE [ st |-> broadcast_update([ s EXCEPT !.meta = JsonDocument(to_dict(s)),
                                            !.log = Append(@, Event("save")) ]),
         ok |-> TRUE ]

\* Project.save_metadata.  fault is "none", "open" (open raises, the file is
\* as before) or "dump" (json.dump raises after open truncated the file).
\* Result: [st, ok].
save_metadata(s, fault) ==
  IF "project" \notin s.dirs \/ fault = "open" THEN [ st |-> s, ok |-> FALSE ]
  ELSE IF fault = "dump" THEN [ st |-> [ s EXCEPT !.meta = CorruptMeta ], ok |-> FALSE ]
  ELSE [ st |-> [ s EXCEPT !.meta = JsonDocument(to_dict(s)),
                           !.log = Append(@, Event("save")) ],
         ok |-> TRUE ]

\* Project.add_processing_record
add_processing_record(s, operation, input_files, output_files, t) ==
  LET record == [ timestamp |-> isoformat(t), operation |-> operation,
                  input_files |-> input_files, output_files |-> output_files ]
  IN  broadcast_update([ s EXCEPT !.processing_history = Append(@, record),
                                  !.modified_date = t ])

\* faulty variant: modified_date keeps the time of the construction instead
\* of the date of the metadata
load_from_metadata_dated_now(s, t) ==
  IF s.meta.kind # "json" THEN [ ok |-> FALSE, project |-> s ]
  ELSE LET metadata == s.meta.doc
           constructed == NewProject(metadata.name, metadata.directories.base, t)
           d == Directories(constructed.name, metadata.id, constructed.base_dir)
           id == [ constructed EXCEPT !.id = metadata.id,
                                      !.project_dir = d.project_dir,
                                      !.input_dir = d.input_dir,
                                      !.processed_dir = d.processed_dir,
                                      !.output_dir = d.output_dir,
                                      !.created_date = fromisoformat(metadata.created_date),
                                      !.description = metadata.description,
                                      !.tags = metadata.tags ]
           fields == [ s EXCEPT !.ident = id,
                                !.modified_date = t,
                                !.files = metadata.files,
                                !.processing_history = metadata.processing_history ]
           fresh == NewContext(fields)
           restored == [ fresh EXCEPT !.context.requirements = metadata.requirements,
                                      !.context.tech_stack = metadata.tech_stack ]
       IN  [ ok |-> TRUE, project |-> update_from_project(restored) ]

\* Project.load_from_metadata(metadata_path) at time t, for the metadata file
\* of state s.  Result: [ok, project]; project is s with the fields of the
\* Project object replaced by those of the Project returned.
load_from_metadata(s, t) ==
  IF s.meta.kind # "json" THEN [ ok |-> FALSE, project |-> s ]
  ELSE LET metadata == s.meta.doc
           constructed == NewProject(metadata.name, metadata.directories.base, t)
           d == Directories(constructed.name, metadata.id, constructed.base_dir)
           id == [ constructed EXCEPT !.id = metadata.id,
                                      !.project_dir = d.project_dir,
                                      !.input_dir = d.input_dir,
                                      !.processed_dir = d.processed_dir,
                                      !.output_dir = d.output_dir,
                                      !.created_date = fromisoformat(metadata.created_date),
                                      !.description = metadata.description,
                                      !.tags = metadata.tags ]
           fields == [ s EXCEPT !.ident = id,
                                !.modified_date = fromisoformat(metadata.modified_date),
                                !.files = metadata.files,
                                !.processing_history = metadata.processing_history ]
           fresh == NewContext(fields)
           restored == [ fresh EXCEPT !.context.requirements = metadata.requirements,
                                      !.context.tech_stack = metadata.tech_stack ]
       IN  [ ok |-> TRUE, project |-> update_from_project(restored) ]

(***************************************************************************)
(* State.                                                                  *)
(***************************************************************************)
VARIABLES
  ident,               \* name, id, directories, created_date, description, tags
  disk,                \* disk[b][n]: the entry named n of the bucket directory b
  dirs,                \* the directories that exist, among "project" and the buckets
  files,               \* Project.files
  modified_date,       \* Project.modified_date
  context,             \* Project.context
  processing_history,  \* Project.processing_history
  meta,                \* the content of project_metadata.json
  loaded,              \* the Project returned by the last load_from_metadata
  log,                 \* the steps of the last operation or request, in order
  ret,                 \* the last call: operation, facts about its arguments, result
  now,                 \* the clock
  ext,                 \* number of external changes so far
  merge,               \* the last DiagramAgent._apply_changes call: arguments, heap, result
  manager,             \* project_socket_manager, its listeners and its broadcast calls
  app,                 \* the projects registry file, app_state and the metadata files
  batch,               \* the response of the last process_excel request
  typed,               \* the last _determine_diagram_type call: prompt and result
  agent,               \* a ChatAgent: its project, images_sent and its last call
  chat,                \* the chat WebSocket and the output files of the projects
  handlers,            \* the create_project and load_project handlers that are running
  tasks                \* the create_file calls and upload handlers that are running

\* the state outside the Project, its directories and its metadata file
rest == << merge, manager, app, batch, typed, agent, chat, handlers, tasks >>

vars == << ident, disk, dirs, files, modified_date, context, processing_history,
           meta, loaded, log, ret, now, ext, rest >>

\* the current state as one value, with an empty log
Cur ==
  [ ident |-> ident, disk |-> disk, dirs |-> dirs, files |-> files,
    modified_date |-> modified_date, context |-> context,
    processing_history |-> processing_history, meta |-> meta, log |-> << >> ]

\* the fields of a state that belong to the Project object
ProjectFields(s) ==
  [ ident |-> s.ident, files |-> s.files, modified_date |-> s.modified_date,
    context |-> s.context, processing_history |-> s.processing_history ]

NoProject == [ ident |-> << >> ]

\* the state s becomes the current state
Become(s) ==
  /\ ident' = s.ident
  /\ disk' = s.disk
  /\ dirs' = s.dirs
  /\ files' = s.files
  /\ modified_date' = s.modified_date
  /\ context' = s.context
  /\ processing_history' = s.processing_history
  /\ meta' = s.meta
  /\ log' = s.log

\* s becomes the current state and the clock advances
Commit(s) == Become(s) /\ now' = now + 1

\* The description of a call.  ok: it returned True or a path; raised: it
\* raised; path: the path create_file returned; added: the result of the
\* add_file inside create_file; tracked: the record the call is about (the
\* path of add_file and create_file, the name of delete_file and rename_file)
\* was tracked before the call; old_on_disk, dest_on_disk: the source and
\* the destination of rename_file existed before the call.
Call(op) ==
  [ op |-> op, ok |-> FALSE, raised |-> FALSE, path |-> NoPath, added |-> FALSE,
    tracked |-> FALSE, old_on_disk |-> FALSE, dest_on_disk |-> FALSE ]

(***************************************************************************)
(* Inputs.                                                                 *)
(***************************************************************************)
N_r == << "r", ".", "m", "d" >>
N_r1 == << "r", "_", "1", ".", "m", "d" >>
N_S == << "S", ".", "c", "s", "v" >>
N_geo == << "d", ".", "g", "e", "o", "m", "e", "t", "r", "y", ".", "j", "s", "o", "n" >>
N_xls == << "b", ".", "x", "l", "s" >>
N_GEO == << "D", ".", "G", "E", "O", "M", "E", "T", "R", "Y", ".", "J", "S", "O", "N" >>

\* names given to create_file and rename_file
FileNames == { N_r, N_geo }
\* names of the files and of the directories that appear from outside
ExtFileNames == { N_S, N_GEO }
ExtDirNames == { N_r1 }
\* the bucket add_file, delete_file, rename_file and the external changes address
OpBuckets == { "output" }
\* file_type arguments of add_file, delete_file and rename_file
FileTypes == OpBuckets \cup { "bogus" }
\* file_type arguments of create_file
CreateTypes == { "processed", "output", "bogus" }

CreatedContent == << "h", "i" >>
ExtContent == << "e" >>

\* the orders os.listdir uses in the model: ascending, and a permutation
\* that is not ascending for any directory of two or more names
Orders == { 0, 1 }

ListFaults == { NoFault, "output" }

\* no fault, a failing os.listdir, or a failing open / os.remove / os.rename
FaultSet == { Faults(l, FALSE) : l \in ListFaults } \cup { Faults(NoFault, TRUE) }

\* the names a call may pass for an existing file of bucket b
KnownNames(b) ==
  IF b \in Buckets
    THEN (DOMAIN disk[b]) \cup { files[b][i].name : i \in 1..Len(files[b]) } \cup { N_r }
    ELSE { N_r }

(***************************************************************************)
(* Initial state: Project(name, base_dir) has been constructed at time 0.  *)
(***************************************************************************)
ProjectName == << "M", "y", " ", "D" >>
BaseDir == << Root, << "base" >> >>

InitState(name, base_dir) ==
  NewContext([ ident |-> NewProject(name, base_dir, 0),
               disk |-> [ b \in Buckets |-> << >> ],
               dirs |-> {},
               files |-> EmptyFiles,
               modified_date |-> 0,
               context |-> << >>,
               processing_history |-> << >>,
               meta |-> NoMeta,
               log |-> << >> ])

InitWith(s) ==
  /\ ident = s.ident
  /\ disk = s.disk
  /\ dirs = s.dirs
  /\ files = s.files
  /\ modified_date = s.modified_date
  /\ context = s.context
  /\ processing_history = s.processing_history
  /\ meta = s.meta
  /\ loaded = NoProject
  /\ log = << >>
  /\ ret = [ Call("init") EXCEPT !.ok = TRUE ]
  /\ now = 1
  /\ ext = 0

\* no call of the DiagramAgent has been made
NotCalled == [ applied |-> FALSE ]

\* ConnectionManager.__init__; no listener has received anything and no
\* broadcast has been made
Sockets == { "w1", "w2", "w3" }
NewManager ==
  [ active_connections |-> << >>,
    received |-> [ w \in Sockets |-> << >> ],
    gone |-> {},
    calls |-> << >>,
    sent |-> << >> ]

\* the application has started: there is no registry file, no current
\* project, no chat agent and no project directory
NoRegistry == [ kind |-> "absent" ]
NoCurrent == [ id |-> << >> ]
NewApp ==
  [ registry |-> NoRegistry,
    current_project |-> NoCurrent,
    chat_agents |-> {},
    metadata |-> << >>,
    now |-> 1,
    last |-> [ op |-> "start", ok |-> TRUE, fault |-> "none", detail |-> "" ] ]

\* no process_excel request was answered yet
NoResponse == [ called |-> FALSE ]

\* ChatAgent.__init__ without a project, MultimodalMixin.__init__
NewAgent == [ project |-> "none", images_sent |-> FALSE, last |-> [ op |-> "init" ] ]

\* _determine_diagram_type was not called yet
NoPrompt == [ called |-> FALSE ]

\* no chat WebSocket is open and no project directory holds an output file
NoChat == [ open |-> FALSE, project |-> NoCurrent, files |-> << >>, last |-> [ op |-> "none" ] ]

\* no create_project or load_project handler is running
NoHandlers == [ running |-> << >>, done |-> << >> ]

\* no create_file call or upload handler is running
NoTasks == [ running |-> << >>, done |-> << >> ]

InitRest == merge = NotCalled /\ manager = NewManager /\ app = NewApp /\ batch = NoResponse /\ typed = NoPrompt /\ agent = NewAgent /\ chat = NoChat /\ handlers = NoHandlers /\ tasks = NoTasks

Init == InitWith(InitState(ProjectName, BaseDir)) /\ InitRest

(***************************************************************************)
(* Operations of the Project.                                              *)
(***************************************************************************)
CreateDirs ==
  \E fails \in BOOLEAN :
    \E r \in { create_directory_structure(Cur, fails) } :
        /\ Become(r.st)
        /\ ret' = [ Call("create_directory_structure") EXCEPT !.ok = r.ok ]
        /\ UNCHANGED << rest, loaded, ext, now >>

Scan ==
  /\ now <= MaxTime
  /\ \E order \in Orders, fault \in ListFaults :
       \E r \in { scan_and_update_files(Cur, order, fault, now) } :
           /\ Commit(r.st)
           /\ ret' = [ Call("scan_and_update_files") EXCEPT !.ok = ~r.raised, !.raised = r.raised ]
           /\ UNCHANGED << rest, loaded, ext >>

CreateFile ==
  /\ now <= MaxTime
  /\ \E file_name \in FileNames, file_type \in CreateTypes, f \in FaultSet, order \in Orders :
       \E r \in { create_file(Cur, file_name, file_type, CreatedContent, order, f, now) } :
           /\ Commit(r.st)
           /\ ret' = [ Call("create_file")
                         EXCEPT !.ok = r.ok, !.path = r.path, !.added = r.added,
                                !.tracked = r.ok /\ Tracked(Cur, file_type, r.path) ]
           /\ UNCHANGED << rest, loaded, ext >>

AddFile ==
  /\ now <= MaxTime
  /\ \E b \in OpBuckets, f \in FaultSet, order \in Orders :
       \E file_type \in { b, "bogus" },
          file_path \in { FilePath(ident, b, n) : n \in KnownNames(b) } \cup { OutsidePath } :
         \E r \in { add_file(Cur, file_path, file_type, order, f, now) } :
             /\ Commit(r.st)
             /\ ret' = [ Call("add_file")
                           EXCEPT !.ok = r.ok,
                                  !.tracked = file_type \in Buckets /\ Tracked(Cur, file_type, file_path) ]
             /\ UNCHANGED << rest, loaded, ext >>

DeleteFile ==
  /\ now <= MaxTime
  /\ \E file_type \in FileTypes, f \in FaultSet, order \in Orders :
       \E file_name \in KnownNames(file_type) :
         \E r \in { delete_file(Cur, file_name, file_type, order, f, now) } :
             /\ Commit(r.st)
             /\ ret' = [ Call("delete_file")
                           EXCEPT !.ok = r.ok,
                                  !.tracked = file_type \in Buckets
                                                /\ Named(Cur, file_type, file_name) # << >> ]
             /\ UNCHANGED << rest, loaded, ext >>

RenameFile ==
  /\ now <= MaxTime
  /\ \E file_type \in FileTypes, f \in FaultSet, order \in Orders :
       \E file_name \in KnownNames(file_type), new_name \in KnownNames(file_type) \cup FileNames :
         \E r \in { rename_file(Cur, file_name, new_name, file_type, order, f, now) } :
             /\ Commit(r.st)
             /\ ret' = [ Call("rename_file")
                           EXCEPT !.ok = r.ok, !.raised = r.raised,
                                  !.tracked = file_type \in Buckets
                                                /\ Named(Cur, file_type, file_name) # << >>,
                                  !.old_on_disk = file_type \in Buckets
                                     /\ Exists(Cur, FilePath(ident, file_type, file_name)),
                                  !.dest_on_disk = file_type \in Buckets
                                     /\ Exists(Cur, FilePath(ident, file_type, new_name)) ]
             /\ UNCHANGED << rest, loaded, ext >>

AddProcessingRecord ==
  /\ now <= MaxTime
  /\ \E s \in { add_processing_record(Cur, "excel_sheet_processing", << >>, << >>, now) } :
         /\ Commit(s)
         /\ ret' = [ Call("add_processing_record") EXCEPT !.ok = TRUE ]
         /\ UNCHANGED << rest, loaded, ext >>

(***************************************************************************)
(* External changes to the bucket directories.                             *)
(***************************************************************************)
External(s, what) ==
  /\ now <= MaxTime
  /\ ext < MaxExt
  /\ ext' = ext + 1
  /\ Commit(s)
  /\ ret' = [ Call(what) EXCEPT !.ok = TRUE ]
  /\ UNCHANGED << rest, loaded >>

ExtCreate ==
  \E b \in OpBuckets, n \in ExtFileNames :
    /\ b \in dirs
    /\ n \notin DOMAIN disk[b]
    /\ External([ Cur EXCEPT !.disk[b] = Put(@, n, NewFile(ExtContent, now)) ], "ext_create")

ExtMkdir ==
  \E b \in OpBuckets, n \in ExtDirNames :
    /\ b \in dirs
    /\ n \notin DOMAIN disk[b]
    /\ External([ Cur EXCEPT !.disk[b] = Put(@, n, [ NewFile(<< >>, now) EXCEPT !.kind = "dir" ]) ],
                "ext_mkdir")

ExtDelete ==
  \E b \in OpBuckets :
    \E n \in DOMAIN disk[b] :
      External([ Cur EXCEPT !.disk[b] = Drop(@, n) ], "ext_delete")

Next ==
  \/ CreateDirs
  \/ Scan
  \/ CreateFile
  \/ AddFile
  \/ DeleteFile
  \/ RenameFile
  \/ AddProcessingRecord
  \/ ExtCreate
  \/ ExtMkdir
  \/ ExtDelete

Spec == Init /\ [][Next]_vars

(***************************************************************************)
(* The metadata file: Project.save_metadata, Project.load_from_metadata,   *)
(* the setters of the context and the load-project request.                *)
(***************************************************************************)
\* arguments of update_requirements_and_stack; features is a dictionary,
\* written as the sequence of its items
SomeRequirements ==
  [ input_description |-> "in", output_description |-> "out",
    features |-> << << "login", "by mail" >> >>, further_requirements |-> "more" ]
RequirementInputs == { EmptyRequirements, SomeRequirements }
TechStacks == { "", "fastapi" }
PrototypeCodes == { "<html>" }
SaveFaults == { "none", "open", "dump" }
\* description and tags written into the metadata file from outside
ExtDescription == "demo"
ExtTags == << "t" >>

UpdateRequirements ==
  \E r \in RequirementInputs, tech_stack \in TechStacks :
    /\ now <= MaxTime
    /\ Commit(update_requirements_and_stack(Cur, r.input_description, r.output_description,
                                            r.features, r.further_requirements, tech_stack))
    /\ ret' = [ Call("update_requirements_and_stack") EXCEPT !.ok = TRUE ]
    /\ UNCHANGED << rest, loaded, ext >>

SetPrototypeCode ==
  \E html_code \in PrototypeCodes :
    /\ now <= MaxTime
    /\ Commit(set_prototype_code(Cur, html_code))
    /\ ret' = [ Call("set_prototype_code") EXCEPT !.ok = TRUE ]
    /\ UNCHANGED << rest, loaded, ext >>

SaveMetadata ==
  \E fault \in SaveFaults :
    \E r \in { save_metadata(Cur, fault) } :
      /\ now <= MaxTime
      /\ Commit(r.st)
      /\ ret' = [ Call("save_metadata") EXCEPT !.ok = r.ok ]
      /\ UNCHANGED << rest, loaded, ext >>

LoadFromMetadata ==
  \E r \in { load_from_metadata(Cur, now) } :
    /\ now <= MaxTime
    /\ now' = now + 1
    /\ loaded' = IF r.ok THEN ProjectFields(r.project) ELSE NoProject
    /\ ret' = [ Call("load_from_metadata") EXCEPT !.ok = r.ok ]
    /\ log' = << >>
    /\ UNCHANGED << rest, ident, disk, dirs, files, modified_date, context, processing_history,
                    meta, ext >>

\* routers/projects.py load_project, for a project the registry lists: the
\* loaded Project becomes the current one, is rescanned and saved
LoadProject ==
  /\ now <= MaxTime
  /\ meta.kind # "absent"
  /\ \E fault \in ListFaults, save_fault \in SaveFaults :
       \E l \in { load_from_metadata(Cur, now) } :
         IF ~l.ok
           THEN /\ ret' = Call("load_project")
                /\ log' = << >>
                /\ now' = now + 1
                /\ UNCHANGED << rest, ident, disk, dirs, files, modified_date, context,
                                processing_history, meta, loaded, ext >>
           ELSE \E sc \in { scan_and_update_files(l.project, 0, fault, now) } :
                  /\ Commit(IF sc.raised THEN sc.st ELSE save_metadata(sc.st, save_fault).st)
                  /\ ret' = [ Call("load_project") EXCEPT !.ok = ~sc.raised, !.raised = sc.raised ]
                  /\ UNCHANGED << rest, loaded, ext >>

\* the description and the tags of the metadata file are edited from outside
ExtEditMetadata ==
  /\ ext < MaxExt
  /\ meta.kind = "json"
  /\ meta' = JsonDocument([ meta.doc EXCEPT !.description = ExtDescription, !.tags = ExtTags ])
  /\ ext' = ext + 1
  /\ ret' = [ Call("ext_edit_metadata") EXCEPT !.ok = TRUE ]
  /\ log' = << >>
  /\ UNCHANGED << rest, ident, disk, dirs, files, modified_date, context, processing_history,
                  loaded, now >>

NextMeta ==
  \/ CreateDirs
  \/ CreateFile
  \/ AddProcessingRecord
  \/ UpdateRequirements
  \/ SetPrototypeCode
  \/ SaveMetadata
  \/ LoadFromMetadata
  \/ LoadProject
  \/ ExtEditMetadata

SpecMeta == Init /\ [][NextMeta]_vars

(***************************************************************************)
(* Requests that change the files of the current project                   *)
(* (routers/files.py, routers/projects.py, routers/chat.py).               *)
(***************************************************************************)
UploadContent == << "x", "l" >>
EditedContent == << "e", "d", "i", "t" >>
\* the extensions edit_document supports
EditableExts == { << ".", "m", "d" >>, << ".", "j", "s", "o", "n" >>, << ".", "h", "t", "m", "l" >> }
RouteSaveFaults == { "none", "open" }

\* the response of a request that changed nothing
Refused(s) == [ st |-> s, ok |-> FALSE, raised |-> FALSE ]

\* the end of a request: save_metadata, whose result is not looked at, and
\* the success response
SaveAndRespond(s, save_fault) ==
  [ st |-> save_metadata(s, save_fault).st, ok |-> TRUE, raised |-> FALSE ]

\* routers/files.py upload_excel.  Result: [st, ok, raised].
upload_excel(s, file_name, content, order, f, save_fault, t) ==
  LET made == [ s EXCEPT !.dirs = @ \cup { "project", "input" } ]
      final_filename == FreeName(made, "input", file_name, 0)
      destination_path == FilePath(s.ident, "input", final_filename)
      written == [ made EXCEPT !.disk["input"] = Put(@, final_filename, NewFile(content, t)),
                               !.log = Append(@, Event("disk")) ]
  IN  IF f.sys THEN Refused(made)
      ELSE Only({ IF ~added.ok THEN Refused(added.st)
                  ELSE SaveAndRespond(added.st, save_fault) :
                  added \in { add_file(written, destination_path, "input", order, f, t) } })

\* routers/chat.py, command create_text_document
create_text_document(s, filename, markdown_content, order, f, save_fault, t) ==
  Only({ IF ~created.ok THEN Refused(created.st)
         ELSE SaveAndRespond(created.st, save_fault) :
         created \in { create_file(s, filename, "output", markdown_content, order, f, t) } })

\* routers/chat.py, command edit_document
edit_document(s, filename, edited_content, order, f, save_fault, t) ==
  LET found == Named(s, "output", filename)
      file_path_to_edit == found[1].path
      written == [ s EXCEPT !.disk["output"][filename] =
                              [ @ EXCEPT !.content = edited_content, !.mtime = t ],
                            !.log = Append(@, Event("disk")) ]
  IN  IF found = << >> THEN Refused(s)
      ELSE IF ~IsFile(s, file_path_to_edit) THEN Refused(s)
      ELSE IF ~\E e \in EditableExts : EndsWith(Lower(filename), e) THEN Refused(s)
      ELSE IF f.sys THEN Refused(s)
      ELSE Only({ IF sc.raised THEN Refused(sc.st)
                  ELSE SaveAndRespond(sc.st, save_fault) :
                  sc \in { scan_and_update_files(written, order, f.list, t) } })

\* routers/projects.py remove_output_file
remove_output_file(s, file_name, order, f, save_fault, t) ==
  Only({ IF ~deleted.ok THEN Refused(deleted.st)
         ELSE SaveAndRespond(deleted.st, save_fault) :
         deleted \in { delete_file(s, file_name, "output", order, f, t) } })

\* routers/projects.py rename_output_file; an exception of rename_file leaves
\* the handler
rename_output_file(s, old_file_name, new_file_name, order, f, save_fault, t) ==
  Only({ IF ~renamed.ok THEN [ st |-> renamed.st, ok |-> FALSE, raised |-> renamed.raised ]
         ELSE SaveAndRespond(renamed.st, save_fault) :
         renamed \in { rename_file(s, old_file_name, new_file_name, "output", order, f, t) } })

\* routers/files.py delete_file: the file is removed first, so that the
\* os.remove of Project.delete_file finds nothing to remove
delete_file_route(s, filetype, filename, order, f, save_fault, t) ==
  LET found == Named(s, filetype, filename)
      file_path == found[1].path
      b == BucketOfDir(s.ident, file_path.dir)
      removed == IF Exists(s, file_path)
                   THEN [ s EXCEPT !.disk[b] = Drop(@, file_path.name),
                                   !.log = Append(@, Event("disk")) ]
                   ELSE s
  IN  IF filetype \notin Buckets THEN Refused(s)
      ELSE IF found = << >> THEN Refused(s)
      \* os.remove raises for a directory
      ELSE IF Exists(s, file_path) /\ (f.sys \/ ~IsFile(s, file_path)) THEN Refused(s)
      ELSE Only({ SaveAndRespond(deleted.st, save_fault) :
                  deleted \in { delete_file(removed, filename, filetype, order, f, t) } })

\* routers/projects.py add_output_file: init_content
DocumentTypes == { "markdown", "diagram", "html" }
InitContent(document_type) ==
  CASE document_type = "markdown" -> << "# New Document" >>
    [] document_type = "html" -> << "<html><body><h1>New Document</h1></body></html>" >>
    [] document_type = "diagram" -> << "{diagramType, diagramName, classes, relationships}" >>

\* routers/projects.py add_output_file.  The coroutine create_file returns
\* is not awaited: its body never runs.
add_output_file(s, file_name, file_type, document_type) ==
  IF file_name = << >> THEN Refused(s)
  ELSE IF file_type \notin Buckets THEN Refused(s)
  ELSE IF document_type \notin DocumentTypes THEN Refused(s)
  ELSE [ st |-> [ s EXCEPT !.dirs = @ \cup { "project", file_type } ],
         ok |-> TRUE, raised |-> FALSE ]

\* a request ends: its state is committed, ret describes its response
Respond(op, r) ==
  /\ Commit(r.st)
  /\ ret' = [ Call(op) EXCEPT !.ok = r.ok, !.raised = r.raised ]
  /\ UNCHANGED << rest, loaded, ext >>

UploadExcel ==
  /\ now <= MaxTime
  /\ \E f \in FaultSet, order \in Orders, save_fault \in RouteSaveFaults :
       \E r \in { upload_excel(Cur, N_xls, UploadContent, order, f, save_fault, now) } :
         Respond("upload_excel", r)

CreateTextDocument ==
  /\ now <= MaxTime
  /\ \E f \in FaultSet, order \in Orders, save_fault \in RouteSaveFaults :
       \E r \in { create_text_document(Cur, N_r, CreatedContent, order, f, save_fault, now) } :
         Respond("create_text_document", r)

EditDocument ==
  /\ now <= MaxTime
  /\ \E f \in FaultSet, order \in Orders, save_fault \in RouteSaveFaults :
       \E filename \in KnownNames("output") :
         \E r \in { edit_document(Cur, filename, EditedContent, order, f, save_fault, now) } :
           Respond("edit_document", r)

RemoveOutputFile ==
  /\ now <= MaxTime
  /\ \E f \in FaultSet, order \in Orders, save_fault \in RouteSaveFaults :
       \E file_name \in KnownNames("output") :
         \E r \in { remove_output_file(Cur, file_name, order, f, save_fault, now) } :
           Respond("remove_output_file", r)

RenameOutputFile ==
  /\ now <= MaxTime
  /\ \E f \in FaultSet, order \in Orders, save_fault \in RouteSaveFaults :
       \E old_file_name \in KnownNames("output"), new_file_name \in KnownNames("output") \cup { N_r1 } :
         \E r \in { rename_output_file(Cur, old_file_name, new_file_name, order, f, save_fault, now) } :
           Respond("rename_output_file", r)

AddOutputFile ==
  /\ now <= MaxTime
  /\ \E file_name \in { N_r, << >> }, file_type \in CreateTypes,
        document_type \in { "markdown", "diagram", "bogus" } :
       \E r \in { add_output_file(Cur, file_name, file_type, document_type) } :
         /\ Commit(r.st)
         /\ ret' = [ Call("add_output_file")
                       EXCEPT !.ok = r.ok,
                              !.path = IF file_type \in Buckets
                                         THEN FilePath(ident, file_type, file_name)
                                         ELSE NoPath ]
         /\ UNCHANGED << rest, loaded, ext >>

DeleteFileRoute ==
  /\ now <= MaxTime
  /\ \E f \in FaultSet, order \in Orders, save_fault \in RouteSaveFaults :
       \E filetype \in { "input", "output", "bogus" } :
         \E filename \in KnownNames(filetype) \cup { N_xls } :
           \E r \in { delete_file_route(Cur, filetype, filename, order, f, save_fault, now) } :
             /\ Commit(r.st)
             /\ ret' = [ Call("delete_file_route")
                           EXCEPT !.ok = r.ok, !.raised = r.raised,
                                  !.path = IF filetype \in Buckets
                                             THEN FilePath(ident, filetype, filename)
                                             ELSE NoPath ]
             /\ UNCHANGED << rest, loaded, ext >>

NextRoutes ==
  \/ CreateDirs
  \/ UploadExcel
  \/ CreateTextDocument
  \/ EditDocument
  \/ RemoveOutputFile
  \/ RenameOutputFile
  \/ DeleteFileRoute
  \/ AddOutputFile
  \/ ExtDelete

SpecRoutes == Init /\ [][NextRoutes]_vars

(***************************************************************************)
(* Properties of the Project operations, checked under Spec.               *)
(***************************************************************************)
\* the names of the records of a list, in list order
RecordNames(records) == [ i \in 1..Len(records) |-> records[i].name ]

\* the paths of the records of a list
RecordPaths(records) == { records[i].path : i \in 1..Len(records) }

\* a sequence of names is strictly ascending by code point
StrictlyAscending(names) ==
  \A i \in 1..(Len(names) - 1) : StrLess(names[i], names[i + 1])

\* the last call was scan_and_update_files and it ran to its end
ScanCompleted == ret.op = "scan_and_update_files" /\ ~ret.raised

\* C1: after any sequence of add_file, create_file, delete_file, rename_file
\* and scan_and_update_files calls, with external changes to the bucket
\* directories in between, no bucket's record list holds two records with
\* the same path.
NoDuplicatePaths ==
  \A b \in Buckets :
    \A i, j \in 1..Len(files[b]) : files[b][i].path = files[b][j].path => i = j

\* C1 happens: a bucket tracks two files after a file was created, the list
\* having been rebuilt while it was not empty
TwoTracked ==
  /\ ret.op = "create_file"
  /\ ret.ok
  /\ \E b \in Buckets : Len(files[b]) >= 2

\* C2 as stated: right after scan_and_update_files completes, the paths of
\* files[bucket] are the regular files of the bucket directory whose name
\* does not end in '.geometry.json', and the records are sorted by name.
ScanTracksAllButGeometryJson ==
  ScanCompleted =>
    \A b \in Buckets :
      /\ RecordPaths(files[b]) =
           IF b \in dirs
             THEN { FilePath(ident, b, n) :
                      n \in { m \in DOMAIN disk[b] :
                               disk[b][m].kind = "file" /\ ~EndsWith(m, GeometrySuffix) } }
             ELSE {}
      /\ StrictlyAscending(RecordNames(files[b]))

\* C2, amended: right after scan_and_update_files completes, files[bucket]
\* holds exactly one record, built from the file as it is on disk now, for
\* each regular file of the bucket directory whose lower-cased name does not
\* end in '.geometry.json' (so neither 'd.geometry.json' nor
\* 'D.GEOMETRY.JSON' is tracked), nothing of the previous list survives, and
\* the records are sorted ascending by name.
ScanTracksAllButGeometryJsonAnyCase ==
  ScanCompleted =>
    \A b \in Buckets :
      LET names == IF b \in dirs
                     THEN { m \in DOMAIN disk[b] :
                              /\ disk[b][m].kind = "file"
                              /\ ~EndsWith(Lower(m), GeometrySuffix) }
                     ELSE {}
      IN  /\ { files[b][i] : i \in 1..Len(files[b]) } = { FileRecord(Cur, b, n) : n \in names }
          /\ Len(files[b]) = Cardinality(names)
          /\ StrictlyAscending(RecordNames(files[b]))

\* C2 happens: a scan has completed over a directory that holds an
\* upper-case sidecar next to a file that is tracked
ScannedUpperCaseSidecar ==
  /\ ScanCompleted
  /\ \E b \in Buckets :
       /\ N_GEO \in DOMAIN disk[b]
       /\ files[b] # << >>

\* C3 as stated: whenever add_file, create_file, delete_file or rename_file
\* returns success, files equals what a fresh scan of the bucket directories
\* would produce at that moment; add_file for an already tracked path included.
SuccessMeansReconciled ==
  (ret.op \in { "add_file", "create_file", "delete_file", "rename_file" } /\ ret.ok) =>
    files = scan_and_update_files(Cur, 0, NoFault, now).st.files

\* C4 as stated: on success the path create_file returns exists on disk and
\* is tracked in files[bucket].
CreatedIsTracked ==
  (ret.op = "create_file" /\ ret.ok) =>
    /\ IsFile(Cur, ret.path)
    /\ Tracked(Cur, BucketOfDir(ident, ret.path.dir), ret.path)

RescanIsIdempotent ==
  ScanCompleted =>
    \A order \in Orders :
      LET again == scan_and_update_files(Cur, order, NoFault, now)
      IN  ~again.raised /\ again.st.files = files

\* C6 happens: a scan has completed with two records in one bucket
ScannedTwo ==
  /\ ScanCompleted
  /\ \E b \in Buckets : Len(files[b]) >= 2

\* C8 as stated: every payload sent to the broadcast boundary, from
\* scan_and_update_files and from add_processing_record, carries the files
\* that are trackable in the bucket directories at the moment of the broadcast.
BroadcastIsReconciled ==
  \A i \in 1..Len(log) :
    log[i].tag = "broadcast" =>
      \A b \in Buckets : RecordPaths(log[i].payload.files[b]) = log[i].ondisk[b]

\* C9 as stated: no Project operation propagates an exception to its caller
\* when a filesystem call fails.
NothingRaised == ~ret.raised

Steps == [ i \in 1..Len(log) |-> log[i].tag ]

\* the place of a step in the order the specification states
StatedRank(tag) ==
  CASE tag = "disk" -> 1 [] tag = "rescan" -> 2 [] tag = "context" -> 3
    [] tag = "save" -> 4 [] tag = "broadcast" -> 5

\* the place of a step in the order of the code
CodeRank(tag) ==
  CASE tag = "disk" -> 1 [] tag = "rescan" -> 2 [] tag = "context" -> 3
    [] tag = "broadcast" -> 4 [] tag = "save" -> 5

LoadedWhatWasSaved ==
  /\ ret.op = "load_from_metadata"
  /\ ret.ok
  /\ meta = JsonDocument(to_dict(Cur))

\* C10: save_metadata followed by load_from_metadata on the written file
\* yields a Project whose id, name, base_dir, derived directories,
\* created_date, description, tags, modified_date, files, processing_history,
\* requirements and tech_stack equal those of the saved Project; the
\* generated-content cache of the context is empty in the loaded Project.
MetadataRoundTrip ==
  LoadedWhatWasSaved =>
    /\ loaded.ident = ident
    /\ loaded.modified_date = modified_date
    /\ loaded.files = files
    /\ loaded.processing_history = processing_history
    /\ loaded.context.requirements = context.requirements
    /\ loaded.context.tech_stack = context.tech_stack
    /\ loaded.context.prototype_code = ""

\* C10 happens: a Project that tracks a file and was modified after its
\* creation has been saved and loaded
LoadedTrackedFile ==
  /\ LoadedWhatWasSaved
  /\ files["output"] # << >>
  /\ modified_date # ident.created_date

(***************************************************************************)
(* DiagramAgent._apply_changes (agents/DiagramAgent.py).                   *)
(*                                                                         *)
(* A JSON value is a tagged record: t is its Python type, v its content.   *)
(* A dict is a function from keys to values, a list a sequence of values.  *)
(* The arrays of a diagram are list objects: the diagram maps each of its  *)
(* keys to the address of a list, and the heap maps an address to the      *)
(* items of the list, so that two dicts can share one list.                *)
(***************************************************************************)
None == [ t |-> "null" ]
Str(s) == [ t |-> "str", v |-> s ]
Num(n) == [ t |-> "num", v |-> n ]
List(q) == [ t |-> "list", v |-> q ]
Dict(f) == [ t |-> "dict", v |-> f ]

\* a == b of Python, for None, strings and numbers
PyEq(a, b) == a.t = b.t /\ (a.t \in { "str", "num" } => a.v = b.v)

\* d.get(key) of a dict d
Get(d, key) == IF key \in DOMAIN d.v THEN d.v[key] ELSE None

\* hash(x) is defined: None, strings and numbers can be members of a set
Hashable(x) == x.t \in { "null", "str", "num" }

\* key in x: "yes", "no", or "raise" when x is None or a number
In(key, x) ==
  CASE x.t = "dict" -> IF key \in DOMAIN x.v THEN "yes" ELSE "no"
    [] x.t = "list" -> IF \E i \in 1..Len(x.v) : PyEq(x.v[i], Str(key)) THEN "yes" ELSE "no"
    [] OTHER -> "raise"

\* the arrays of a diagram
Categories == { "classes", "actors", "useCases", "relationships" }

\* d[key] = value of a dict d
SetItem(d, key, value) ==
  [ k \in DOMAIN d \cup { key } |-> IF k = key THEN value ELSE d[k] ]

\* The state of a call: the heap, the dict modified (key to address) and
\* whether an exception has left the call.
Raise(st) == [ st EXCEPT !.raised = TRUE ]

\* modified[key] = items: a new list object is bound to the key
BindNewList(st, key, items) ==
  [ st EXCEPT !.heap = Append(@, items),
              !.modified = SetItem(@, key, Len(st.heap) + 1) ]

\* the items of modified[key]
ItemsOf(st, key) == st.heap[st.modified[key]]

\* SelectSeq with a test that reads the state
RECURSIVE Keep(_, _, _)
Keep(items, dropped, i) ==
  IF i > Len(items) THEN << >>
  ELSE IF i \in dropped THEN Keep(items, dropped, i + 1)
  ELSE << items[i] >> \o Keep(items, dropped, i + 1)

\* cls.get("name") can be taken of every item and put into a set
NamedEntries(items) ==
  \A i \in 1..Len(items) : items[i].t = "dict" /\ Hashable(Get(items[i], "name"))

\* lines 316-322, 340-346, 364-370: the remove branch of classes, actors or
\* useCases
RemoveEntities(st, entity_changes, key) ==
  IF "remove" \notin DOMAIN entity_changes.v THEN st
  ELSE LET to_remove == entity_changes.v["remove"]
       IN  IF to_remove.t # "list" \/ \E i \in 1..Len(to_remove.v) : ~Hashable(to_remove.v[i])
             THEN Raise(st)     \* set(...) raises TypeError
           ELSE IF key \notin DOMAIN st.modified THEN st
           ELSE IF ~NamedEntries(ItemsOf(st, key)) THEN Raise(st)
           ELSE LET items == ItemsOf(st, key)
                    dropped == { i \in 1..Len(items) :
                                   \E j \in 1..Len(to_remove.v) :
                                     PyEq(Get(items[i], "name"), to_remove.v[j]) }
                IN  BindNewList(st, key, Keep(items, dropped, 1))

\* the loop over the add list, had a candidate taken the place of the entry
\* of its name
RECURSIVE AppendNewEntitiesReplacing(_, _, _, _)
AppendNewEntitiesReplacing(st, key, candidates, i) ==
  IF i > Len(candidates) THEN st
  ELSE IF ~NamedEntries(ItemsOf(st, key)) \/ ~NamedEntries(<< candidates[i] >>)
    THEN Raise(st)
  ELSE LET items == ItemsOf(st, key)
           same == { j \in 1..Len(items) :
                       PyEq(Get(items[j], "name"), Get(candidates[i], "name")) }
           next == IF same = {}
                     THEN [ st EXCEPT !.heap[st.modified[key]] = Append(@, candidates[i]) ]
                     ELSE [ st EXCEPT !.heap[st.modified[key]] =
                              [ j \in 1..Len(items) |-> IF j \in same THEN candidates[i] ELSE items[j] ] ]
       IN  AppendNewEntitiesReplacing(next, key, candidates, i + 1)

\* lines 329-333, 353-357, 377-381: the loop over the add list; every entry
\* is appended to the list object modified[key] unless an entry of that
\* name is in the list
RECURSIVE AppendNewEntities(_, _, _, _)
AppendNewEntities(st, key, candidates, i) ==
  IF i > Len(candidates) THEN st
  ELSE IF ~NamedEntries(ItemsOf(st, key)) \/ ~NamedEntries(<< candidates[i] >>)
    THEN Raise(st)     \* .get raises AttributeError, the set raises TypeError
  ELSE LET items == ItemsOf(st, key)
           exists == \E j \in 1..Len(items) :
                       PyEq(Get(items[j], "name"), Get(candidates[i], "name"))
           next == IF exists THEN st
                   ELSE [ st EXCEPT !.heap[st.modified[key]] = Append(@, candidates[i]) ]
       IN  AppendNewEntities(next, key, candidates, i + 1)

\* for x in value: the items of a list; a dict yields its keys; None and
\* numbers are not iterable
Iterable(value) == value.t \in { "list", "dict" }
RECURSIVE KeysOf(_)
KeysOf(keys) ==
  IF keys = {} THEN << >>
  ELSE LET k == CHOOSE x \in keys : TRUE IN << Str(k) >> \o KeysOf(keys \ { k })
ItemsIn(value) == IF value.t = "list" THEN value.v ELSE KeysOf(DOMAIN value.v)

\* lines 325-333, 349-357, 373-381: the add branch of classes, actors or
\* useCases
AddEntities(st, entity_changes, key) ==
  IF "add" \notin DOMAIN entity_changes.v THEN st
  ELSE LET s1 == IF key \in DOMAIN st.modified THEN st ELSE BindNewList(st, key, << >>)
           to_add == entity_changes.v["add"]
       IN  IF ~Iterable(to_add) THEN Raise(s1)
           ELSE AppendNewEntities(s1, key, ItemsIn(to_add), 1)

\* a block that applies the additions before the removals
ApplyEntityChangesAddFirst(st, change_data, key) ==
  IF st.raised \/ key \notin DOMAIN change_data.v THEN st
  ELSE LET entity_changes == change_data.v[key]
       IN  IF entity_changes.t # "dict" THEN Raise(st)
           ELSE LET s1 == AddEntities(st, entity_changes, key)
                IN  IF s1.raised THEN s1 ELSE RemoveEntities(s1, entity_changes, key)

\* lines 311-333, 335-357, 359-381: one of the blocks of classes, actors and
\* useCases
ApplyEntityChanges(st, change_data, key) ==
  IF st.raised \/ key \notin DOMAIN change_data.v THEN st
  ELSE LET entity_changes == change_data.v[key]
           has_remove == In("remove", entity_changes)
           has_add == In("add", entity_changes)
       IN  IF has_remove = "raise" THEN Raise(st)
           ELSE IF entity_changes.t = "list"
             THEN IF has_remove = "yes" \/ has_add = "yes"
                    THEN Raise(st)     \* a list is indexed by a string: TypeError
                    ELSE st
           ELSE LET s1 == RemoveEntities(st, entity_changes, key)
                IN  IF s1.raised THEN s1 ELSE AddEntities(s1, entity_changes, key)

\* lines 393-398: the stored relationship rel is matched by the criterion
RemovalMatches(rel, rel_to_remove) ==
  \/ /\ PyEq(Get(rel, "fromClass"), Get(rel_to_remove, "from"))
     /\ PyEq(Get(rel, "toClass"), Get(rel_to_remove, "to"))
     /\ PyEq(Get(rel, "type"), Get(rel_to_remove, "type"))
  \/ /\ PyEq(Get(rel, "from"), Get(rel_to_remove, "from"))
     /\ PyEq(Get(rel, "to"), Get(rel_to_remove, "to"))
     /\ PyEq(Get(rel, "type"), Get(rel_to_remove, "type"))

\* lines 390-399: the loop over the remove list; each criterion rebinds
\* modified["relationships"] to a filtered list
RECURSIVE RemoveRelationships(_, _, _)
RemoveRelationships(st, criteria, i) ==
  IF i > Len(criteria) THEN st
  ELSE LET items == ItemsOf(st, "relationships")
       IN  IF \/ \E j \in 1..Len(items) : items[j].t # "dict"
              \/ items # << >> /\ criteria[i].t # "dict"
             THEN Raise(st)     \* .get raises AttributeError
           ELSE LET dropped == { j \in 1..Len(items) : RemovalMatches(items[j], criteria[i]) }
                IN  RemoveRelationships(BindNewList(st, "relationships", Keep(items, dropped, 1)),
                                        criteria, i + 1)

\* lines 409-414: the stored relationship rel is the same as the candidate
AddMatches(rel, new_rel) ==
  \/ /\ PyEq(Get(rel, "fromClass"), Get(new_rel, "fromClass"))
     /\ PyEq(Get(rel, "toClass"), Get(new_rel, "toClass"))
     /\ PyEq(Get(rel, "type"), Get(new_rel, "type"))
  \/ /\ PyEq(Get(rel, "from"), Get(new_rel, "from"))
     /\ PyEq(Get(rel, "to"), Get(new_rel, "to"))
     /\ PyEq(Get(rel, "type"), Get(new_rel, "type"))

\* lines 408-416: any(...) over the list, from its item j on: "yes", "no",
\* or "raise" when .get is called on an item or a candidate that is no dict
RECURSIVE AddExists(_, _, _)
AddExists(items, new_rel, j) ==
  IF j > Len(items) THEN "no"
  ELSE IF items[j].t # "dict" \/ new_rel.t # "dict" THEN "raise"
  ELSE IF AddMatches(items[j], new_rel) THEN "yes"
  ELSE AddExists(items, new_rel, j + 1)

\* lines 406-418: the loop over the add list of relationships
RECURSIVE AppendNewRelationships(_, _, _)
AppendNewRelationships(st, candidates, i) ==
  IF i > Len(candidates) THEN st
  ELSE LET exists == AddExists(ItemsOf(st, "relationships"), candidates[i], 1)
       IN  IF exists = "raise" THEN Raise(st)
           ELSE LET next == IF exists = "yes" THEN st
                            ELSE [ st EXCEPT !.heap[st.modified["relationships"]] =
                                               Append(@, candidates[i]) ]
                IN  AppendNewRelationships(next, candidates, i + 1)

\* lines 383-418: the block of relationships
ApplyRelationshipChanges(st, change_data) ==
  IF st.raised \/ "relationships" \notin DOMAIN change_data.v THEN st
  ELSE LET rel_changes == change_data.v["relationships"]
           has_remove == In("remove", rel_changes)
           has_add == In("add", rel_changes)
       IN  IF has_remove = "raise" THEN Raise(st)
           ELSE IF rel_changes.t = "list"
             THEN IF (has_remove = "yes" /\ "relationships" \in DOMAIN st.modified)
                       \/ has_add = "yes"
                    THEN Raise(st)
                    ELSE st
           ELSE LET s1 == IF has_remove = "yes" /\ "relationships" \in DOMAIN st.modified
                            THEN IF ~Iterable(rel_changes.v["remove"]) THEN Raise(st)
                                 ELSE RemoveRelationships(st, ItemsIn(rel_changes.v["remove"]), 1)
                            ELSE st
                IN  IF s1.raised \/ has_add = "no" THEN s1
                    ELSE LET s2 == IF "relationships" \in DOMAIN s1.modified THEN s1
                                   ELSE BindNewList(s1, "relationships", << >>)
                         IN  IF ~Iterable(rel_changes.v["add"]) THEN Raise(s2)
                             ELSE AppendNewRelationships(s2, ItemsIn(rel_changes.v["add"]), 1)

\* DiagramAgent._apply_changes.  current_diagram maps the keys of the
\* diagram to addresses of the heap.  Result: [heap, modified, raised].
apply_changes(heap, current_diagram, changes) ==
  LET st == [ heap |-> heap, modified |-> current_diagram, raised |-> FALSE ]
      has_changes == In("changes", changes)
  IN  IF has_changes = "raise" THEN Raise(st)
      ELSE IF has_changes = "no" THEN st
      ELSE IF changes.t = "list" THEN Raise(st)
      ELSE LET change_data == changes.v["changes"]
           IN  IF change_data.t # "dict"
                 THEN IF change_data.t = "list" /\ \A k \in Categories : In(k, change_data) = "no"
                        THEN st
                        ELSE Raise(st)
               ELSE ApplyRelationshipChanges(
                      ApplyEntityChanges(
                        ApplyEntityChanges(
                          ApplyEntityChanges(st, change_data, "classes"),
                          change_data, "actors"),
                        change_data, "useCases"),
                      change_data)

\* json.loads: the document doc (key to items) as fresh objects: a heap of
\* its lists and the dict that refers to them
CategoryOrder == << "classes", "actors", "useCases", "relationships" >>
Loaded(doc) ==
  LET keys == SelectSeq(CategoryOrder, LAMBDA k : k \in DOMAIN doc)
  IN  [ heap |-> [ i \in 1..Len(keys) |-> doc[keys[i]] ],
        dict |-> [ k \in DOMAIN doc |-> CHOOSE i \in 1..Len(keys) : keys[i] = k ] ]

\* the document a dict denotes in a heap
Document(heap, dict) == [ k \in DOMAIN dict |-> heap[dict[k]] ]

(***************************************************************************)
(* Arguments of _apply_changes.                                            *)
(***************************************************************************)
\* all sequences over S of length at most n
SeqsUpTo(S, n) == UNION { [ 1..k -> S ] : k \in 0..n }

\* a dict with no key
EmptyDict == Dict(<< >>)

\* f and g together, g first
Merged(f, g) == [ k \in DOMAIN f \cup DOMAIN g |-> IF k \in DOMAIN g THEN g[k] ELSE f[k] ]

\* {"changes": {category: {"remove": ..., "add": ...}}}
Envelope(category, category_changes) ==
  Dict([ changes |-> Dict(SetItem(<< >>, category, category_changes)) ])

EntityUser == Dict([ name |-> Str("User") ])
EntityUserNew == Dict([ name |-> Str("User"), attributes |-> Str("id") ])
EntityOrder == Dict([ name |-> Str("Order") ])
EntityCategories == { "classes", "actors", "useCases" }
EntityLists == { << >>, << EntityUser >>, << EntityUser, EntityOrder >>, << EntityOrder, EntityUser >> }
EntityDocs ==
  { << >> } \cup { SetItem(<< >>, c, q) : c \in EntityCategories, q \in EntityLists }
RemoveLists ==
  { << >> } \cup { [ remove |-> List(q) ] : q \in SeqsUpTo({ Str("User"), Str("Order") }, MaxItems) }
AddLists ==
  { << >> } \cup { [ add |-> List(q) ] :
                    q \in SeqsUpTo({ EntityUser, EntityUserNew, EntityOrder }, MaxItems) }
EntityCalls ==
  { [ doc |-> d, changes |-> Envelope(c, Dict(Merged(r, a))) ] :
      d \in EntityDocs, c \in EntityCategories, r \in RemoveLists, a \in AddLists }

\* a relationship in the convention of class diagrams (fromClass, toClass) or
\* of use case diagrams (from, to)
Rel(convention, source, target, type) ==
  IF convention = "fromClass"
    THEN Dict([ fromClass |-> Str(source), toClass |-> Str(target), type |-> Str(type) ])
    ELSE Dict([ from |-> Str(source), to |-> Str(target), type |-> Str(type) ])
Conventions == { "fromClass", "from" }
Endpoints == { << "A", "B" >>, << "A", "C" >> }
RelTypes == { "association", "inheritance" }
Rels == { Rel(c, e[1], e[2], t) : c \in Conventions, e \in Endpoints, t \in RelTypes }
StoredRels == { r \in Rels : Get(r, "type") = Str("association") \/ Get(r, "to") = Str("B") }
RelDocs ==
  { << >> } \cup { [ relationships |-> q ] : q \in SeqsUpTo(StoredRels, MaxItems) }
RelChanges ==
  { [ remove |-> List(q) ] : q \in SeqsUpTo(Rels, MaxItems) }
    \cup { [ add |-> List(q) ] : q \in SeqsUpTo(Rels, MaxItems) }
RelCalls ==
  { [ doc |-> d, changes |-> Envelope("relationships", Dict(c)) ] : d \in RelDocs, c \in RelChanges }

\* change-sets that are not of the expected form
MalformedChanges ==
  { EmptyDict,
    Dict([ classes |-> Dict([ add |-> List(<< EntityOrder >>) ]) ]),
    Dict([ changes |-> None ]),
    Dict([ changes |-> EmptyDict ]),
    Dict([ changes |-> List(<< >>) ]),
    Envelope("tables", Dict([ add |-> List(<< EntityOrder >>) ])),
    Envelope("classes", None),
    Envelope("classes", Num(1)),
    Envelope("classes", List(<< >>)),
    Envelope("classes", EmptyDict),
    Envelope("classes", Dict([ remove |-> None ])),
    Envelope("classes", Dict([ remove |-> List(<< Num(1) >>) ])),
    Envelope("classes", Dict([ remove |-> List(<< EntityUser >>) ])),
    Envelope("classes", Dict([ add |-> None ])),
    Envelope("classes", Dict([ add |-> List(<< EntityOrder, Str("Item") >>) ])),
    Envelope("classes", Dict([ add |-> List(<< >>), remove |-> List(<< >>) ])),
    Envelope("relationships", None),
    Envelope("relationships", Dict([ remove |-> List(<< Str("A") >>) ])),
    Envelope("relationships", Dict([ add |-> List(<< Str("A"), Str("B") >>) ])),
    Envelope("relationships", Dict([ add |-> None ])) }
MalformedDocs ==
  { << >>, [ classes |-> << EntityUser >>, relationships |-> << Rel("fromClass", "A", "B", "association") >> ] }
MalformedCalls == { [ doc |-> d, changes |-> c ] : d \in MalformedDocs, c \in MalformedChanges }

\* the calls by the kind of their change-set
CallKinds == { "entities", "relationships", "malformed" }
Calls(kind) ==
  CASE kind = "entities" -> EntityCalls
    [] kind = "relationships" -> RelCalls
    [] kind = "malformed" -> MalformedCalls

(***************************************************************************)
(* The call: current_json is loaded from the file of the diagram and       *)
(* _apply_changes is applied to it and to the change-set.                  *)
(***************************************************************************)
projectVars == << ident, disk, dirs, files, modified_date, context, processing_history,
                  meta, loaded, log, ret, now, ext >>

InitDiagram ==
  /\ InitWith(InitState(ProjectName, BaseDir))
  /\ manager = NewManager
  /\ app = NewApp
  /\ batch = NoResponse
  /\ typed = NoPrompt
  /\ agent = NewAgent
  /\ chat = NoChat
  /\ handlers = NoHandlers
  /\ tasks = NoTasks
  /\ \E kind \in CallKinds : \E c \in Calls(kind) :
       merge = [ applied |-> FALSE, kind |-> kind, heap |-> Loaded(c.doc).heap,
                 current_diagram |-> Loaded(c.doc).dict, changes |-> c.changes ]

ApplyChanges ==
  /\ ~merge.applied
  /\ "changes" \in DOMAIN merge
  /\ \E r \in { apply_changes(merge.heap, merge.current_diagram, merge.changes) } :
       merge' = [ applied |-> TRUE, kind |-> merge.kind, heap |-> merge.heap,
                  current_diagram |-> merge.current_diagram, changes |-> merge.changes,
                  after |-> r.heap, modified |-> r.modified, raised |-> r.raised ]
  /\ UNCHANGED << projectVars, manager, app, batch, typed, agent, chat, handlers, tasks >>

NextDiagram == ApplyChanges

SpecDiagram == InitDiagram /\ [][NextDiagram]_vars

(***************************************************************************)
(* Properties of _apply_changes, checked under SpecDiagram.                *)
(***************************************************************************)
\* the document given to the call and the document it returned
Before == Document(merge.heap, merge.current_diagram)
Result == Document(merge.after, merge.modified)

\* the changes of a category in the change-set of a well-formed call, and
\* the list it gives for a verb ("add", "remove"), empty when it gives none
CategoryChanges(category) ==
  IF category \in DOMAIN merge.changes.v["changes"].v
    THEN merge.changes.v["changes"].v[category].v
    ELSE << >>
Given(category, verb) ==
  IF verb \in DOMAIN CategoryChanges(category) THEN CategoryChanges(category)[verb].v ELSE << >>

\* the items of a category before the call, none when the key is absent
ItemsBefore(category) == IF category \in DOMAIN Before THEN Before[category] ELSE << >>

\* the endpoints of a relationship, under the convention it is written in
EndpointsOf(rel) ==
  IF "fromClass" \in DOMAIN rel.v
    THEN << rel.v["fromClass"].v, rel.v["toClass"].v >>
    ELSE << rel.v["from"].v, rel.v["to"].v >>

\* two relationships have the same endpoints under one naming convention
SameEndpointsSameConvention(a, b) ==
  /\ ("fromClass" \in DOMAIN a.v) = ("fromClass" \in DOMAIN b.v)
  /\ EndpointsOf(a) = EndpointsOf(b)

\* the add list applied as stated: a candidate is skipped if and only if a
\* relationship of the list has its endpoints and its type
RECURSIVE StatedRelationshipAdd(_, _, _)
StatedRelationshipAdd(items, candidates, i) ==
  IF i > Len(candidates) THEN items
  ELSE LET duplicate == \E j \in 1..Len(items) :
                          /\ SameEndpointsSameConvention(items[j], candidates[i])
                          /\ items[j].v["type"] = candidates[i].v["type"]
       IN  StatedRelationshipAdd(IF duplicate THEN items ELSE Append(items, candidates[i]),
                                 candidates, i + 1)

\* C11 as stated: a candidate relationship is skipped if and only if an
\* existing relationship has the same two endpoints under a naming
\* convention and an identical type; a candidate whose endpoints differ from
\* those of all existing relationships is appended.
RelationshipAddSkipsOnlyDuplicates ==
  (merge.applied /\ merge.kind = "relationships" /\ "add" \in DOMAIN CategoryChanges("relationships")) =>
    /\ ~merge.raised
    /\ Result["relationships"] =
         StatedRelationshipAdd(ItemsBefore("relationships"), Given("relationships", "add"), 1)

\* C12 as stated: a stored relationship is dropped if and only if, for some
\* removal criterion, its endpoints (stored as fromClass/toClass or as
\* from/to) equal the endpoints of the criterion (given as from/to or as
\* fromClass/toClass) and the types are equal; the others are retained.
RelationshipRemovalMatchesEndpoints ==
  (merge.applied /\ merge.kind = "relationships" /\ "remove" \in DOMAIN CategoryChanges("relationships")
     /\ "relationships" \in DOMAIN Before) =>
    /\ ~merge.raised
    /\ Result["relationships"] =
         SelectSeq(Before["relationships"],
                   LAMBDA rel : ~\E j \in 1..Len(Given("relationships", "remove")) :
                                   LET criterion == Given("relationships", "remove")[j]
                                   IN  /\ EndpointsOf(rel) = EndpointsOf(criterion)
                                       /\ rel.v["type"] = criterion.v["type"])

\* C13 as stated: _apply_changes never mutates its current_diagram
\* argument: the arrays of the argument hold the same entries after the
\* call as before.
ArgumentNotMutated ==
  merge.applied => Document(merge.after, merge.current_diagram) = Before

\* the names of a list of entities
EntityNames(items) == { items[i].v["name"].v : i \in 1..Len(items) }

\* the add list applied as stated: the candidates whose name is not present
\* are appended in the order of the add list
RECURSIVE StatedEntityAdd(_, _, _)
StatedEntityAdd(items, candidates, i) ==
  IF i > Len(candidates) THEN items
  ELSE StatedEntityAdd(IF candidates[i].v["name"].v \in EntityNames(items)
                         THEN items ELSE Append(items, candidates[i]),
                       candidates, i + 1)

\* C14: for classes, actors and useCases the resulting array is the
\* existing array after removals, in its original order, followed by the
\* candidates of the add list whose name was not present (in the array or
\* earlier in the add list), in the order of the add list; no existing
\* entry is replaced by a candidate.
EntityAddKeepsOriginals ==
  (merge.applied /\ merge.kind = "entities") =>
    /\ ~merge.raised
    /\ \A c \in EntityCategories :
         /\ c \in DOMAIN Result <=> (c \in DOMAIN Before \/ "add" \in DOMAIN CategoryChanges(c))
         /\ c \in DOMAIN Result =>
              Result[c] =
                StatedEntityAdd(
                  SelectSeq(ItemsBefore(c),
                            LAMBDA e : \A j \in 1..Len(Given(c, "remove")) :
                                         e.v["name"] # Given(c, "remove")[j]),
                  Given(c, "add"), 1)

\* C14 happens: User was in the array, and User with attributes and Order
\* were candidates
AddedNextToOriginal ==
  /\ merge.applied
  /\ merge.kind = "entities"
  /\ ItemsBefore("classes") = << EntityUser >>
  /\ Given("classes", "add") = << EntityUserNew, EntityOrder >>
  /\ Result["classes"] = << EntityUser, EntityOrder >>

\* C15 as stated: _apply_changes never fails: for every malformed or empty
\* change-set it returns a document without raising.
ApplyChangesNeverRaises == merge.applied => ~merge.raised

(***************************************************************************)
(* ConnectionManager (utils/WebSocketManager.py).                          *)
(*                                                                         *)
(* manager.active_connections is the dict of the ConnectionManager;        *)
(* received[w] is what the client of the websocket w has been sent; gone   *)
(* holds the websockets whose client has left, on which send_json raises;  *)
(* calls holds the broadcast call in progress, which gives way to other    *)
(* coroutines at each await; sent describes the calls that have returned.  *)
(***************************************************************************)
ProjectIds == { "p", "q" }

\* the first occurrence of x is removed from the list
RECURSIVE ListRemove(_, _)
ListRemove(list, x) ==
  IF list = << >> THEN << >>
  ELSE IF Head(list) = x THEN Tail(list)
  ELSE << Head(list) >> \o ListRemove(Tail(list), x)

Members(list) == { list[i] : i \in 1..Len(list) }

\* ConnectionManager.connect
connect(m, websocket, project_id) ==
  LET ac == IF project_id \in DOMAIN m.active_connections
              THEN m.active_connections
              ELSE SetItem(m.active_connections, project_id, << >>)
  IN  [ m EXCEPT !.active_connections = [ ac EXCEPT ![project_id] = Append(@, websocket) ] ]

\* ConnectionManager.disconnect
disconnect(m, websocket, project_id) ==
  IF project_id \notin DOMAIN m.active_connections THEN m
  ELSE LET ac == m.active_connections
           removed == IF websocket \in Members(ac[project_id])
                        THEN ListRemove(ac[project_id], websocket)
                        ELSE ac[project_id]
       IN  [ m EXCEPT !.active_connections =
                        IF removed = << >> THEN Drop(ac, project_id)
                        ELSE [ ac EXCEPT ![project_id] = removed ] ]

\* the websockets registered under other project ids
RegisteredElsewhere(m, project_id) ==
  UNION { Members(m.active_connections[p]) : p \in DOMAIN m.active_connections \ { project_id } }

\* a broadcast call that has returned
Returned(m, call, raised) ==
  [ m EXCEPT !.calls = << >>,
             !.sent = Append(@, [ project_id |-> call.project_id,
                                  message_data |-> call.message_data,
                                  connections |-> call.connections,
                                  elsewhere |-> call.elsewhere,
                                  failed |-> call.failed,
                                  raised |-> raised ]) ]

\* ConnectionManager.broadcast, lines 29-32: the list of the project id is
\* copied; with no list the call returns
begin_broadcast(m, project_id, message_data) ==
  LET call == [ project_id |-> project_id, message_data |-> message_data,
                connections |-> IF project_id \in DOMAIN m.active_connections
                                  THEN m.active_connections[project_id] ELSE << >>,
                elsewhere |-> RegisteredElsewhere(m, project_id),
                i |-> 1, disconnected_sockets |-> << >>, failed |-> {} ]
  IN  IF project_id \in DOMAIN m.active_connections
        THEN [ m EXCEPT !.calls = << call >> ]
        ELSE Returned(m, call, FALSE)

\* the loop of broadcast, had a failing send_json not been caught
send_next_uncaught(m) ==
  LET call == m.calls[1]
      connection == call.connections[call.i]
  IN  IF connection \in m.gone
        THEN Returned(m, [ call EXCEPT !.failed = @ \cup { connection } ], TRUE)
        ELSE [ m EXCEPT !.received[connection] = Append(@, call.message_data),
                        !.calls[1].i = @ + 1 ]

\* ConnectionManager.broadcast, lines 32-37: one turn of the loop
send_next(m) ==
  LET call == m.calls[1]
      connection == call.connections[call.i]
  IN  IF connection \in m.gone
        THEN [ m EXCEPT !.calls[1].disconnected_sockets = Append(@, connection),
                        !.calls[1].failed = @ \cup { connection },
                        !.calls[1].i = @ + 1 ]
        ELSE [ m EXCEPT !.received[connection] = Append(@, call.message_data),
                        !.calls[1].i = @ + 1 ]

\* lines 39-40: the websockets whose send failed are disconnected
RECURSIVE DisconnectAll(_, _, _)
DisconnectAll(m, sockets, project_id) ==
  IF sockets = << >> THEN m
  ELSE DisconnectAll(disconnect(m, Head(sockets), project_id), Tail(sockets), project_id)

end_broadcast(m) ==
  LET call == m.calls[1]
  IN  Returned(DisconnectAll(m, call.disconnected_sockets, call.project_id), call, FALSE)

\* the project id under which a websocket is registered
RegisteredUnder(m, websocket) ==
  { p \in DOMAIN m.active_connections : websocket \in Members(m.active_connections[p]) }

\* routers/projects.py websocket_project_updates_endpoint: a new websocket
\* is accepted and registered
Connect ==
  \E w \in Sockets, p \in ProjectIds :
    /\ w \notin manager.gone
    /\ \A q \in DOMAIN manager.active_connections : w \notin Members(manager.active_connections[q])
    /\ manager.received[w] = << >>
    /\ manager' = connect(manager, w, p)
    /\ UNCHANGED << projectVars, merge, app, batch, typed, agent, chat, handlers, tasks >>

\* the client of a registered websocket leaves: a send on it raises from now on
ClientLeaves ==
  \E w \in Sockets :
    /\ w \notin manager.gone
    /\ RegisteredUnder(manager, w) # {}
    /\ manager' = [ manager EXCEPT !.gone = @ \cup { w } ]
    /\ UNCHANGED << projectVars, merge, app, batch, typed, agent, chat, handlers, tasks >>

\* websocket_project_updates_endpoint, lines 35-40: receive_text raises on
\* the websocket of a client that has left, and the websocket is disconnected
Disconnect ==
  \E w \in manager.gone :
    \E p \in RegisteredUnder(manager, w) :
      /\ manager' = disconnect(manager, w, p)
      /\ UNCHANGED << projectVars, merge, app, batch, typed, agent, chat, handlers, tasks >>

\* a broadcast is called
BroadcastBegin ==
  /\ manager.calls = << >>
  /\ Len(manager.sent) < MaxBroadcasts
  /\ \E p \in ProjectIds :
       manager' = begin_broadcast(manager, p, [ project_id |-> p, n |-> Len(manager.sent) + 1 ])
  /\ UNCHANGED << projectVars, merge, app, batch, typed, agent, chat, handlers, tasks >>

\* the broadcast in progress sends to its next connection
BroadcastSend ==
  /\ manager.calls # << >>
  /\ manager.calls[1].i <= Len(manager.calls[1].connections)
  /\ manager' = send_next(manager)
  /\ UNCHANGED << projectVars, merge, app, batch, typed, agent, chat, handlers, tasks >>

\* the broadcast in progress disconnects the failed websockets and returns
BroadcastEnd ==
  /\ manager.calls # << >>
  /\ manager.calls[1].i > Len(manager.calls[1].connections)
  /\ manager' = end_broadcast(manager)
  /\ UNCHANGED << projectVars, merge, app, batch, typed, agent, chat, handlers, tasks >>

NextSockets ==
  \/ Connect
  \/ ClientLeaves
  \/ Disconnect
  \/ BroadcastBegin
  \/ BroadcastSend
  \/ BroadcastEnd

SpecSockets == Init /\ [][NextSockets]_vars

(***************************************************************************)
(* Properties of the ConnectionManager, checked under SpecSockets.         *)
(***************************************************************************)
\* C17: for every broadcast(project_id, payload) that has returned: it did
\* not raise, every listener registered for project_id whose send did not
\* fail has received the payload, and no listener registered for another
\* project id has received it.
BroadcastIsBestEffort ==
  \A k \in 1..Len(manager.sent) :
    LET b == manager.sent[k]
    IN  /\ ~b.raised
        /\ \A w \in Members(b.connections) \ b.failed :
             b.message_data \in Members(manager.received[w])
        /\ \A w \in b.failed \cup b.elsewhere :
             b.message_data \notin Members(manager.received[w])

\* C17 happens: a broadcast has returned whose first listener failed and
\* whose second listener received the payload, while a websocket was
\* registered for another project id
DeliveredPastFailure ==
  \E k \in 1..Len(manager.sent) :
    LET b == manager.sent[k]
    IN  /\ Len(b.connections) >= 2
        /\ b.connections[1] \in b.failed
        /\ b.message_data \in Members(manager.received[b.connections[2]])
        /\ b.elsewhere # {}

(***************************************************************************)
(* The projects registry (utils/RegistryHandler.py) and the requests that  *)
(* read and write it (routers/projects.py).                                *)
(*                                                                         *)
(* app.registry is the registry file, app.current_project and              *)
(* app.chat_agents the entries of app_state (the agents by the project ids *)
(* that are their keys), app.metadata the project_metadata.json file of    *)
(* each project directory (by project id).  A project is described by its  *)
(* identity fields, its modified_date and the time its files were last     *)
(* rescanned.  A request meets at most one fault: the   *)
(* registry cannot be read, the registry or a metadata file cannot be      *)
(* opened for writing or its write fails after the file was truncated, the *)
(* project directories cannot be created, os.listdir fails in a scan.      *)
(***************************************************************************)
AppFaults ==
  { "none", "read", "write_open", "write_dump", "dirs", "scan", "meta_open", "meta_dump" }

\* RegistryHandler.load_projects_registry
load_projects_registry(file, fault) ==
  IF file.kind = "absent" THEN << >>
  ELSE IF fault = "read" THEN << >>
  ELSE IF file.kind = "corrupt" THEN << >>
  ELSE file.entries

\* RegistryHandler.save_projects_registry: open(..., 'w') empties the file
\* before json.dump writes it
save_projects_registry(file, projects_list, fault) ==
  CASE fault = "write_open" -> file
    [] fault = "write_dump" -> [ kind |-> "corrupt" ]
    [] OTHER -> [ kind |-> "json", entries |-> projects_list ]

\* the registry entry create_project writes for a project, lines 120-127
RegistryEntry(project) ==
  [ id |-> project.ident.id,
    name |-> project.ident.name,
    base_dir |-> project.ident.base_dir,
    project_dir_name |-> project.ident.project_dir[Len(project.ident.project_dir)],
    created_date |-> isoformat(project.ident.created_date),
    modified_date |-> isoformat(project.modified_date) ]

\* Project.save_metadata of a project, as far as the file is concerned
SavedMetadata(a, project, fault) ==
  CASE fault = "meta_open" -> a.metadata
    [] fault = "meta_dump" -> SetItem(a.metadata, project.ident.id, [ kind |-> "corrupt" ])
    [] OTHER -> SetItem(a.metadata, project.ident.id, [ kind |-> "json", project |-> project ])

\* lines 326-330: the first entry with the id gets the modified_date, and
\* the registry is saved only if there is one
RECURSIVE Touched(_, _, _, _)
Touched(projects_registry, id, date, i) ==
  IF i > Len(projects_registry) THEN projects_registry
  ELSE IF projects_registry[i].id = id
    THEN [ projects_registry EXCEPT ![i].modified_date = isoformat(date) ]
  ELSE Touched(projects_registry, id, date, i + 1)

\* a removal that leaves the agent in place
remove_chat_agent_for_project_keeping(chat_agents, project_id) == chat_agents

\* dependencies.py remove_chat_agent_for_project
remove_chat_agent_for_project(chat_agents, project_id) == chat_agents \ { project_id }

\* routers/projects.py close_project_internal.  Result: [st, raised].
close_project_internal(a, fault) ==
  IF a.current_project = NoCurrent THEN [ st |-> a, raised |-> FALSE ]
  ELSE LET project_to_close == [ a.current_project EXCEPT !.modified_date = a.now ]
           dated == [ a EXCEPT !.current_project = project_to_close ]
       IN  IF fault = "scan" THEN [ st |-> dated, raised |-> TRUE ]
           ELSE LET scanned == [ project_to_close EXCEPT !.scanned = a.now ]
                    projects_registry == load_projects_registry(a.registry, fault)
                    listed == \E i \in 1..Len(projects_registry) :
                                projects_registry[i].id = project_to_close.ident.id
                IN  [ st |-> [ a EXCEPT
                                 !.metadata = SavedMetadata(a, scanned, fault),
                                 !.registry =
                                   IF listed
                                     THEN save_projects_registry(
                                            a.registry,
                                            Touched(projects_registry, project_to_close.ident.id,
                                                    project_to_close.modified_date, 1),
                                            fault)
                                     ELSE a.registry,
                                 !.current_project = NoCurrent,
                                 !.chat_agents = remove_chat_agent_for_project(
                                                   a.chat_agents, project_to_close.ident.id) ],
                      raised |-> FALSE ]

\* routers/projects.py create_project.  Result: [st, ok, detail].
create_project(a, project_name, base_dir, fault) ==
  LET closed == close_project_internal(a, fault)
      project == [ ident |-> NewProject(project_name, base_dir, a.now),
                   modified_date |-> a.now, scanned |-> a.now ]
  IN  IF closed.raised THEN [ st |-> closed.st, ok |-> FALSE, detail |-> "close" ]
      ELSE IF fault = "dirs" THEN [ st |-> closed.st, ok |-> FALSE, detail |-> "directories" ]
      ELSE IF fault = "scan" THEN [ st |-> closed.st, ok |-> FALSE, detail |-> "scan" ]
      ELSE [ st |-> [ closed.st EXCEPT
                        !.metadata = SavedMetadata(closed.st, project, fault),
                        !.current_project = project,
                        !.chat_agents = @ \cup { project.ident.id },
                        !.registry =
                          save_projects_registry(
                            closed.st.registry,
                            Append(load_projects_registry(closed.st.registry, fault),
                                   RegistryEntry(project)),
                            fault) ],
             ok |-> TRUE, detail |-> "" ]

\* routers/projects.py load_project.  Result: [st, ok, detail].
load_project(a, project_id, fault) ==
  LET projects_registry == load_projects_registry(a.registry, fault)
      found == SelectSeq(projects_registry, LAMBDA e : e.id = project_id)
      closed == IF a.current_project # NoCurrent /\ a.current_project.ident.id # project_id
                  THEN close_project_internal(a, fault)
                  ELSE [ st |-> a, raised |-> FALSE ]
  IN  IF found = << >> THEN [ st |-> a, ok |-> FALSE, detail |-> "not in registry" ]
      ELSE IF closed.raised THEN [ st |-> closed.st, ok |-> FALSE, detail |-> "close" ]
      ELSE IF project_id \notin DOMAIN closed.st.metadata
        THEN [ st |-> closed.st, ok |-> FALSE, detail |-> "metadata file not found" ]
      ELSE IF closed.st.metadata[project_id].kind # "json"
        THEN [ st |-> closed.st, ok |-> FALSE, detail |-> "error loading project" ]
      ELSE IF closed.st.metadata[project_id].project.ident.id # project_id
        THEN [ st |-> closed.st, ok |-> FALSE, detail |-> "id mismatch" ]
      ELSE LET loaded_project == closed.st.metadata[project_id].project
               current == [ closed.st EXCEPT !.current_project = loaded_project,
                                             !.chat_agents = @ \cup { project_id } ]
           IN  IF fault = "scan" THEN [ st |-> current, ok |-> FALSE, detail |-> "scan" ]
               ELSE [ st |-> [ current EXCEPT
                                 !.current_project.modified_date = a.now,
                                 !.current_project.scanned = a.now,
                                 !.metadata =
                                   SavedMetadata(current,
                                                 [ loaded_project EXCEPT !.modified_date = a.now,
                                                                         !.scanned = a.now ],
                                                 fault) ],
                      ok |-> TRUE, detail |-> "" ]

\* routers/projects.py close_project_endpoint.  Result: [st, ok, detail].
close_project_endpoint(a, fault) ==
  LET closed == close_project_internal(a, fault)
  IN  [ st |-> closed.st, ok |-> ~closed.raised /\ a.current_project # NoCurrent,
        detail |-> IF closed.raised THEN "close" ELSE "" ]

ProjectNames == { << "A" >>, << "B", " ", "2" >> }

\* the ids of the registry and of the metadata files
KnownIds ==
  { load_projects_registry(app.registry, "none")[i].id :
      i \in 1..Len(load_projects_registry(app.registry, "none")) } \cup DOMAIN app.metadata

\* a request has been answered
Answered(op, r, fault) ==
  /\ app' = [ r.st EXCEPT !.now = @ + 1,
                          !.last = [ op |-> op, ok |-> r.ok, fault |-> fault,
                                     detail |-> r.detail ] ]
  /\ UNCHANGED << projectVars, merge, manager, batch, typed, agent, chat, handlers, tasks >>

CreateProject ==
  /\ app.now <= MaxTime
  /\ \E project_name \in ProjectNames, fault \in AppFaults :
       \E r \in { create_project(app, project_name, BaseDir, fault) } :
         Answered("create_project", r, fault)

LoadProjectById ==
  /\ app.now <= MaxTime
  /\ \E project_id \in KnownIds, fault \in AppFaults :
       \E r \in { load_project(app, project_id, fault) } :
         Answered("load_project", r, fault)

CloseProject ==
  /\ app.now <= MaxTime
  /\ \E fault \in AppFaults :
       \E r \in { close_project_endpoint(app, fault) } :
         Answered("close_project", r, fault)

NextRegistry == CreateProject \/ LoadProjectById \/ CloseProject

SpecRegistry == Init /\ [][NextRegistry]_vars

(***************************************************************************)
(* Properties of the registry, checked under SpecRegistry.                 *)
(***************************************************************************)
\* the entries the registry file holds
SavedEntries(file) == IF file.kind = "json" THEN file.entries ELSE << >>

\* the fields of an entry that are never to change
Identity(entry) ==
  [ id |-> entry.id, name |-> entry.name, base_dir |-> entry.base_dir,
    project_dir_name |-> entry.project_dir_name, created_date |-> entry.created_date ]

\* C18 as stated: the registry is append-only across create, load and close
\* requests: a successful create_project appends exactly one entry, and no
\* request removes an entry that was saved or rewrites its id, name,
\* base_dir, project_dir_name or created_date, also when a registry read
\* fails and load returns an empty list.
RegistryIsAppendOnly ==
  [][ LET old == SavedEntries(app.registry)
          new == SavedEntries(app'.registry)
      IN  /\ Len(new) >= Len(old)
          /\ \A i \in 1..Len(old) : Identity(new[i]) = Identity(old[i])
          /\ (app'.last.op = "create_project" /\ app'.last.ok /\ app'.now # app.now)
               => Len(new) = Len(old) + 1 ]_vars

(***************************************************************************)
(* The context across rescans: Context.update_requirements_and_stack       *)
(* next to the operations that end in Project.scan_and_update_files.       *)
(***************************************************************************)
\* names of the files the context reads: a CSV sheet and an image
N_png == << "b", ".", "p", "n", "g" >>
ContextFileNames == { N_S, N_png }

\* Project.create_file for a file of the processed directory
CreateProcessed ==
  /\ now <= MaxTime
  /\ \E file_name \in ContextFileNames, f \in FaultSet, order \in Orders :
       \E r \in { create_file(Cur, file_name, "processed", CreatedContent, order, f, now) } :
           /\ Commit(r.st)
           /\ ret' = [ Call("create_file")
                         EXCEPT !.ok = r.ok, !.path = r.path, !.added = r.added,
                                !.tracked = r.ok /\ Tracked(Cur, "processed", r.path) ]
           /\ UNCHANGED << rest, loaded, ext >>

NextContext ==
  \/ CreateDirs
  \/ Scan
  \/ CreateProcessed
  \/ DeleteFile
  \/ RenameFile
  \/ UpdateRequirements
  \/ ExtCreate

SpecContext == Init /\ [][NextContext]_vars

\* C19: a rescan, alone or at the end of a file operation, leaves the
\* requirements and the tech stack of the context as they were; only
\* update_requirements_and_stack changes them, so the values it set are
\* still there after any number of rescans and file operations.
RescanKeepsRequirements ==
  [][ ret'.op # "update_requirements_and_stack"
        => /\ context'.requirements = context.requirements
           /\ context'.tech_stack = context.tech_stack ]_vars

\* the requirements were set, and the rescans at the end of the later
\* create_file calls rebuilt the descriptions and the image lists of the
\* context from a new sheet and a new image
RescannedAfterRequirements ==
  /\ ret.op = "create_file"
  /\ ret.ok
  /\ context.requirements = SomeRequirements
  /\ context.tech_stack = "fastapi"
  /\ context.csv_description = << CreatedContent >>
  /\ context.ui_image # << >>

(***************************************************************************)
(* routers/files.py process_excel and ExcelFileHandler.process_sheets.     *)
(* A Python dict is the sequence of its items, in insertion order; a value *)
(* carries its type in the field py: "dict", "str", or "object" for a      *)
(* ProcessingResultDetail.                                                 *)
(***************************************************************************)
\* d[key] = value
DictSet(d, key, value) ==
  IF \E i \in 1..Len(d) : d[i][1] = key
    THEN [ i \in 1..Len(d) |-> IF d[i][1] = key THEN << key, value >> ELSE d[i] ]
    ELSE Append(d, << key, value >>)

\* d.setdefault(key, {})
SetDefault(d, key) == IF \E i \in 1..Len(d) : d[i][1] = key THEN d ELSE Append(d, << key, << >> >>)

\* d[key], for a key of d
DictGet(d, key) == d[CHOOSE i \in 1..Len(d) : d[i][1] = key][2]

\* ProcessingResultDetail(status=..., output_path=..., ...)
ProcessingResultDetail(status, output_path) ==
  [ py |-> "object", status |-> status, output_path |-> output_path ]

\* the dict process_sheets stores for a sheet
SheetDict(status, output_path) ==
  [ py |-> "dict", status |-> status, output_path |-> output_path ]

\* the message of {"error": message}
ErrorText == [ py |-> "str" ]

\* Excel on the server: not available, unable to open the workbook, with
\* the sheets asked for, or without them
ExcelEnvs == { "no_excel", "cannot_open", "sheets", "no_sheets" }

SheetContent == << "c" >>
SheetExt(sheet_type) ==
  IF sheet_type = "table" THEN CsvExt ELSE << ".", "p", "n", "g" >>

\* process_sheets, lines 161-205: the sheets from the i-th on.  A sheet of
\* type table or ui is written into output_folder; any other type is an
\* error.  Result: [st, result].
RECURSIVE SheetLoop(_, _, _, _, _, _)
SheetLoop(s, sheet_types, i, env, result, t) ==
  IF i > Len(sheet_types) THEN [ st |-> s, result |-> result ]
  ELSE LET sheet_name == sheet_types[i][1]
           sheet_type == sheet_types[i][2]
           output_name == sheet_name \o SheetExt(sheet_type)
           output_path == FilePath(s.ident, "processed", output_name)
       IN  IF env = "no_sheets" \/ sheet_type \notin { "table", "ui" }
             THEN SheetLoop(s, sheet_types, i + 1, env,
                            DictSet(result, sheet_name, SheetDict("error", NoPath)), t)
             ELSE SheetLoop([ s EXCEPT !.disk["processed"] =
                                         Put(@, output_name, NewFile(SheetContent, t)) ],
                            sheet_types, i + 1, env,
                            DictSet(result, sheet_name, SheetDict("success", output_path)), t)

\* ExcelFileHandler.process_sheets.  Result: [st, result], result being a
\* dict of dicts, or {"error": message}.
process_sheets(s, excel_file_path, sheet_types, env, t) ==
  IF ~Exists(s, excel_file_path) THEN [ st |-> s, result |-> << << "error", ErrorText >> >> ]
  ELSE IF env = "no_excel" THEN [ st |-> s, result |-> << << "error", ErrorText >> >> ]
  ELSE IF env = "cannot_open" THEN [ st |-> s, result |-> << << "error", ErrorText >> >> ]
  ELSE SheetLoop(s, sheet_types, 1, env, << >>, t)

\* process_excel, lines 296-313: the items of result from the j-th on;
\* detail.status raises AttributeError for a value without that attribute.
\* Result: [file_results, output_files, raised].
RECURSIVE DetailLoop(_, _, _, _)
DetailLoop(result, j, file_results, output_files) ==
  IF j > Len(result)
    THEN [ file_results |-> file_results, output_files |-> output_files, raised |-> FALSE ]
  ELSE LET sheet_name == result[j][1]
           detail == result[j][2]
       IN  IF detail.py # "object"
             THEN [ file_results |-> file_results, output_files |-> output_files,
                    raised |-> TRUE ]
           ELSE IF detail.status = "success"
             THEN DetailLoop(result, j + 1,
                             DictSet(file_results, sheet_name,
                                     ProcessingResultDetail(detail.status, detail.output_path)),
                             IF detail.output_path # NoPath
                               THEN Append(output_files,
                                           [ path |-> detail.output_path,
                                             name |-> basename(detail.output_path) ])
                               ELSE output_files)
           ELSE DetailLoop(result, j + 1,
                           DictSet(file_results, sheet_name,
                                   ProcessingResultDetail(detail.status, NoPath)),
                           output_files)

\* process_excel, lines 334-340: the files from the i-th on; the inner loop
\* stops at the first error of a file
RECURSIVE OverallStatus(_, _, _)
OverallStatus(results_for_response, i, overall_status) ==
  IF i > Len(results_for_response) THEN overall_status
  ELSE LET file_results == results_for_response[i][2]
       IN  IF \E j \in 1..Len(file_results) : file_results[j][2].status = "error"
             THEN OverallStatus(results_for_response, i + 1,
                                IF overall_status = "success" THEN "partial" ELSE "error")
             ELSE OverallStatus(results_for_response, i + 1, overall_status)

\* a response of process_excel
ExcelResponse(s, code, overall_status, results_for_response) ==
  [ st |-> s, code |-> code, status |-> overall_status, results |-> results_for_response ]

\* process_excel, lines 266-346: the files of the request from the i-th on,
\* then the processing record and the overall status
RECURSIVE FileLoop(_, _, _, _, _, _, _)
FileLoop(s, request_files, i, results_for_response, output_files, env, t) ==
  IF i > Len(request_files)
    THEN LET recorded ==
               IF output_files # << >>
                 THEN add_processing_record(s, "excel_sheet_processing",
                                            [ k \in 1..Len(request_files) |-> request_files[k].path ],
                                            output_files, t)
                 ELSE s
         IN  ExcelResponse(recorded, 200, OverallStatus(results_for_response, 1, "success"),
                           results_for_response)
  ELSE LET file_info == request_files[i]
           files_in_folder == s.files["input"]
       IN  IF file_info.path = NoPath \/ file_info.name = << >>
             THEN ExcelResponse(s, 400, "none", << >>)
           ELSE IF ~\E k \in 1..Len(files_in_folder) :
                      \/ files_in_folder[k].path = file_info.path
                      \/ files_in_folder[k].name = file_info.name
             THEN ExcelResponse(s, 404, "none", << >>)
           ELSE Only({
                  Only({ IF looped.raised
                           THEN FileLoop(processed.st, request_files, i + 1,
                                         DictSet(SetDefault(results_for_response, file_info.name),
                                                 file_info.name,
                                                 DictSet(DictGet(SetDefault(results_for_response,
                                                                            file_info.name),
                                                                 file_info.name),
                                                         "file_error",
                                                         ProcessingResultDetail("error", NoPath))),
                                         output_files, env, t)
                           ELSE FileLoop(processed.st, request_files, i + 1,
                                         DictSet(results_for_response, file_info.name,
                                                 looped.file_results),
                                         looped.output_files, env, t) :
                         looped \in { DetailLoop(processed.result, 1,
                                                 DictGet(SetDefault(results_for_response,
                                                                    file_info.name),
                                                         file_info.name),
                                                 output_files) } }) :
                  processed \in { process_sheets(s, file_info.path, file_info.sheets, env, t) } })

\* routers/files.py process_excel.  Result: [st, code, status, results];
\* code 500 stands for an exception that leaves the handler.
process_excel(s, request_files, env, order, fault, t) ==
  Only({ IF scanned.raised THEN ExcelResponse(scanned.st, 500, "none", << >>)
         ELSE LET made == [ scanned.st EXCEPT !.dirs = @ \cup { "project", "processed" } ]
              IN  IF request_files = << >> THEN ExcelResponse(made, 400, "none", << >>)
                  ELSE FileLoop(made, request_files, 1, << >>, << >>, env, t) :
         scanned \in { scan_and_update_files(s, order, fault, t) } })

\* the sheets a request asks for: none, a table, a table and a sheet of an
\* unknown type
SheetChoices ==
  { << >>,
    << << << "S" >>, "table" >> >>,
    << << << "S" >>, "table" >>, << << "b" >>, "chart" >> >> }

\* FileProcessingInfo for the files of the input directory and for N_xls
FileInfos ==
  { [ path |-> FilePath(ident, "input", n), name |-> n, sheets |-> sh ] :
      n \in { files["input"][i].name : i \in 1..Len(files["input"]) } \cup { N_xls },
      sh \in SheetChoices }

\* SheetProcessingRequest.files
Requests == UNION { [ 1..n -> FileInfos ] : n \in 0..MaxFiles }

ProcessExcel ==
  /\ now <= MaxTime
  /\ \E request_files \in Requests, env \in ExcelEnvs, fault \in ListFaults :
       \E r \in { process_excel(Cur, request_files, env, 0, fault, now) } :
         /\ Commit(r.st)
         /\ ret' = [ Call("process_excel") EXCEPT !.ok = (r.code = 200), !.raised = (r.code = 500) ]
         /\ batch' = [ called |-> TRUE, code |-> r.code, status |-> r.status,
                       results |-> r.results ]
         /\ UNCHANGED << merge, manager, app, loaded, ext, typed, agent, chat, handlers, tasks >>

NextExcel ==
  \/ UploadExcel
  \/ ProcessExcel

SpecExcel == Init /\ [][NextExcel]_vars

\* ProcessingResultResponse.results: the places (file, key) of its details
ResultsOf(results) ==
  UNION { { << i, j >> : j \in 1..Len(results[i][2]) } : i \in 1..Len(results) }

\* the details with status "error", and those with status "success"
Failed(results) == { p \in ResultsOf(results) : results[p[1]][2][p[2]][2].status = "error" }
Succeeded(results) == { p \in ResultsOf(results) : results[p[1]][2][p[2]][2].status = "success" }

\* C20: the overall status of an answered process_excel request is "success"
\* exactly when no result has status "error", "error" exactly when there
\* are results and every one of them failed, and "partial" whenever some
\* results succeeded and some failed.
OverallStatusAsStated ==
  (batch.called /\ batch.code = 200) =>
    LET failed == Failed(batch.results)
        succeeded == Succeeded(batch.results)
    IN  /\ (batch.status = "success") <=> (failed = {})
        /\ (batch.status = "error") <=> (failed # {} /\ succeeded = {})
        /\ (failed # {} /\ succeeded # {}) => (batch.status = "partial")

(***************************************************************************)
(* DiagramAgent._determine_diagram_type.                                   *)
(***************************************************************************)
\* sub in s, for strings
Contains(s, sub) ==
  \E i \in 0..(Len(s) - Len(sub)) : SubSeq(s, i + 1, i + Len(sub)) = sub

\* DiagramAgent._determine_diagram_type
determine_diagram_type(prompt) ==
  LET prompt_lower == Lower(prompt)
  IN  IF Contains(prompt_lower, << "c", "l", "a", "s", "s" >>) THEN "UML Class Diagram"
      ELSE IF Contains(prompt_lower, << "s", "e", "q", "u", "e", "n", "c", "e" >>)
        THEN "UML Sequence Diagram"
      ELSE IF \/ Contains(prompt_lower, << "d", "a", "t", "a", "b", "a", "s", "e" >>)
              \/ Contains(prompt_lower, << "e", "r" >>)
              \/ Contains(prompt_lower, << "e", "n", "t", "i", "t", "y" >>)
        THEN "Database Diagram"
      ELSE IF \/ Contains(prompt_lower, << "u", "s", "e", " ", "c", "a", "s", "e" >>)
              \/ Contains(prompt_lower, << "u", "s", "e", "c", "a", "s", "e" >>)
        THEN "Use Case Diagram"
      ELSE IF Contains(prompt_lower, << "a", "c", "t", "i", "v", "i", "t", "y" >>)
        THEN "Activity Diagram"
      ELSE "UML Class Diagram"

\* the words and phrases of the prompts
Vocabulary ==
  { << "c", "r", "e", "a", "t", "e" >>,
    << "g", "e", "n", "e", "r", "a", "t", "e" >>,
    << "a" >>,
    << "u", "s", "e", " ", "c", "a", "s", "e" >>,
    << "U", "s", "e", " ", "C", "a", "s", "e" >>,
    << "u", "s", "e", "c", "a", "s", "e" >>,
    << "U", "M", "L" >>,
    << "c", "l", "a", "s", "s" >>,
    << "d", "i", "a", "g", "r", "a", "m" >> }

\* the words joined by single spaces
RECURSIVE Sentence(_)
Sentence(words) ==
  IF Len(words) = 0 THEN << >>
  ELSE IF Len(words) = 1 THEN words[1]
  ELSE words[1] \o << " " >> \o Sentence(Tail(words))

Prompts == { Sentence(w) : w \in UNION { [ 1..n -> Vocabulary ] : n \in 1..MaxWords } }

DetermineDiagramType ==
  \E prompt \in Prompts :
    /\ typed' = [ called |-> TRUE, prompt |-> prompt,
                  diagram_type |-> determine_diagram_type(prompt) ]
    /\ UNCHANGED << projectVars, merge, manager, app, batch, agent, chat, handlers, tasks >>

NextType == DetermineDiagramType

SpecType == Init /\ [][NextType]_vars

\* C21: a prompt that contains "use case" or "usecase", in any case of the
\* letters, is detected as a use case diagram, whatever else it contains.
UseCasePromptsDetected ==
  ( /\ typed.called
    /\ \/ Contains(Lower(typed.prompt), << "u", "s", "e", " ", "c", "a", "s", "e" >>)
       \/ Contains(Lower(typed.prompt), << "u", "s", "e", "c", "a", "s", "e" >>) )
    => typed.diagram_type = "Use Case Diagram"

(***************************************************************************)
(* MultimodalMixin and ChatAgent: the images attached to a message.        *)
(***************************************************************************)
\* the projects an agent is given: the current one, and another one with
\* one image
AgentProjects == { "current", "other" }
OtherImage == Join(<< Root, << "other" >>, << "processed" >> >>, N_png)

\* project.get_image_dirs() of the project an agent holds
ImageDirsOf(s, project) ==
  IF project = "current" THEN get_image_dirs(s) ELSE << OtherImage >>

\* MultimodalMixin._encode_image_to_base64 returns a string
Encodable(s, project, image_path) ==
  IF project = "current" THEN IsFile(s, image_path) ELSE TRUE

\* ChatAgent.update_context, with MultimodalMixin.update_context at its end
agent_update_context(a, project) ==
  [ a EXCEPT !.project = project, !.images_sent = FALSE ]

\* MultimodalMixin.reset_multimodal_state
reset_multimodal_state(a) == [ a EXCEPT !.images_sent = FALSE ]

\* MultimodalMixin._prepare_multimodal_content.  Result: [a, images], the
\* images being the image_url parts of the content.
prepare_multimodal_content(s, a, include_images) ==
  LET image_paths == ImageDirsOf(s, a.project)
  IN  IF include_images /\ ~a.images_sent /\ a.project # "none" /\ image_paths # << >>
        THEN [ a |-> [ a EXCEPT !.images_sent = TRUE ],
               images |-> SelectSeq(SubSeq(image_paths, 1, IF Len(image_paths) < 10
                                                             THEN Len(image_paths) ELSE 10),
                                    LAMBDA image_path : Encodable(s, a.project, image_path)) ]
        ELSE [ a |-> a, images |-> << >> ]

\* the description of a call on the agent at time t: the project it was
\* given and the images of the message it sent
AgentCall(op, project, images, t) ==
  [ op |-> op, project |-> project, images |-> images, at |-> t ]

\* ChatAgent.generate: the content of the user message it sends
agent_generate(s, a, project, t) ==
  Only({ [ prepared.a EXCEPT !.last = AgentCall("generate", project, prepared.images, t) ] :
         prepared \in { prepare_multimodal_content(s, agent_update_context(a, project), TRUE) } })

\* a call on the agent: the clock ticks, the Project stays as it is
AgentDid(a) ==
  /\ agent' = a
  /\ now' = now + 1
  /\ UNCHANGED << ident, disk, dirs, files, modified_date, context, processing_history,
                  meta, loaded, log, ret, ext, merge, manager, app, batch, typed, chat, handlers, tasks >>

AgentGenerate ==
  /\ now <= MaxTime
  /\ \E project \in AgentProjects : AgentDid(agent_generate(Cur, agent, project, now))

AgentUpdateContext ==
  /\ now <= MaxTime
  /\ \E project \in AgentProjects :
       AgentDid([ agent_update_context(agent, project)
                    EXCEPT !.last = AgentCall("update_context", project, << >>, now) ])

AgentReset ==
  /\ now <= MaxTime
  /\ AgentDid([ reset_multimodal_state(agent)
                  EXCEPT !.last = AgentCall("reset_multimodal_state", agent.project, << >>, now) ])

NextAgent ==
  \/ CreateDirs
  \/ CreateProcessed
  \/ Scan
  \/ AgentGenerate
  \/ AgentUpdateContext
  \/ AgentReset

SpecAgent == Init /\ [][NextAgent]_vars

\* C22: once a generate call of the agent has sent the images of a project,
\* the next call of the agent for the same project, without a reset and
\* without another project in between, sends text only.
ImagesOnlyOnFirstMessage ==
  [][ ( /\ agent.last.op = "generate"
        /\ agent.last.images # << >>
        /\ agent'.last.op = "generate"
        /\ agent'.last.project = agent.last.project
        /\ agent'.last.at = now )
        => agent'.last.images = << >> ]_vars

(***************************************************************************)
(* The delete request, checked under SpecRoutes.                           *)
(***************************************************************************)
\* C23: when the delete request answers with success, the file is absent
\* from disk and no record of that name is left in files[filetype], neither
\* in memory nor in the metadata the request has just saved.
DeleteRouteForgetsFile ==
  (ret.op = "delete_file_route" /\ ret.ok) =>
    LET filetype == BucketOfDir(ident, ret.path.dir)
        filename == ret.path.name
    IN  /\ ~Exists(Cur, ret.path)
        /\ Named(Cur, filetype, filename) = << >>
        /\ (\E i \in 1..Len(log) : log[i] = Event("save"))
             => /\ meta.kind = "json"
                /\ \A i \in 1..Len(meta.doc.files[filetype]) :
                     meta.doc.files[filetype][i].name # filename

\* C24: when the create-output request answers with success, a file for the
\* request was written into the directory of file_type with the initial
\* content, by this request, and it is tracked in files[file_type].
CreateOutputWritesFile ==
  (ret.op = "add_output_file" /\ ret.ok) =>
    LET file_type == BucketOfDir(ident, ret.path.dir)
    IN  \E n \in DOMAIN disk[file_type] :
          /\ disk[file_type][n].kind = "file"
          /\ disk[file_type][n].mtime = now - 1
          /\ \E document_type \in DocumentTypes :
               disk[file_type][n].content = InitContent(document_type)
          /\ \E i \in 1..Len(files[file_type]) :
               files[file_type][i].path = FilePath(ident, file_type, n)

(***************************************************************************)
(* The current project and its chat agent across create, load and close    *)
(* requests that run one at a time, checked under SpecRegistry.            *)
(***************************************************************************)
\* the keys chat_agents is to hold for a current project
AgentsOf(current_project) ==
  IF current_project = NoCurrent THEN {} ELSE { current_project.ident.id }

\* the step takes a project out of current_project: none or one with
\* another id is current afterwards
StoppedBeingCurrent ==
  /\ app.current_project # NoCurrent
  /\ \/ app'.current_project = NoCurrent
     \/ app'.current_project.ident.id # app.current_project.ident.id

LoadFailures == { "metadata file not found", "error loading project", "id mismatch" }

\* C27 as stated: when load_project fails after the registry lookup
\* succeeded (metadata file missing, metadata unloadable or id mismatch),
\* the project that was current before the request is still current and
\* still has its chat agent.
FailedLoadKeepsCurrentProject ==
  [][ ( /\ app'.now # app.now
        /\ app'.last.op = "load_project"
        /\ ~app'.last.ok
        /\ app'.last.detail \in LoadFailures )
        => /\ app'.current_project = app.current_project
           /\ app'.chat_agents = app.chat_agents ]_vars

(***************************************************************************)
(* Removals and additions of one change-set, checked under SpecDiagram.    *)
(***************************************************************************)
\* the positions of the entities named name in a list of entities
PositionsOf(items, name) ==
  { i \in 1..Len(items) : PyEq(Get(items[i], "name"), Str(name)) }

\* the names that are both in the remove list and in the add list of the
\* category in the change-set of the call
RemovedAndAdded(category) ==
  { name \in { "User", "Order" } :
      /\ \E i \in 1..Len(Given(category, "remove")) : Given(category, "remove")[i] = Str(name)
      /\ PositionsOf(Given(category, "add"), name) # {} }

\* the entities of the category that the removals leave in the array
Survivors(category) ==
  SelectSeq(ItemsBefore(category),
            LAMBDA e : \A i \in 1..Len(Given(category, "remove")) :
                         ~PyEq(Get(e, "name"), Given(category, "remove")[i]))

\* the least member of a set of numbers
Least(S) == CHOOSE i \in S : \A j \in S : i <= j

\* a call on entities has returned
EntitiesMerged == merge.applied /\ merge.kind = "entities" /\ ~merge.raised

\* C29: within one change-set the removals of an entity category are applied
\* before its additions: an entity whose name is in both the remove list
\* and the add list of the category is in the array exactly once, with the
\* definition of its first entry in the add list, behind every entity the
\* removals left in the array (entities added after it come behind it).
RemovalsBeforeAdditions ==
  EntitiesMerged =>
    \A category \in EntityCategories : \A name \in RemovedAndAdded(category) :
      LET add == Given(category, "add")
          at == PositionsOf(Result[category], name)
      IN  /\ Cardinality(at) = 1
          /\ \A p \in at :
               /\ Result[category][p] = add[Least(PositionsOf(add, name))]
               /\ p > Len(Survivors(category))
               /\ SubSeq(Result[category], 1, Len(Survivors(category))) = Survivors(category)

\* C29 as stated: the entity is in the array exactly once, with the added
\* definition, as the last entry of the array
RemovedAndAddedEndsLast ==
  EntitiesMerged =>
    \A category \in EntityCategories : \A name \in RemovedAndAdded(category) :
      LET add == Given(category, "add")
          at == PositionsOf(Result[category], name)
      IN  /\ Cardinality(at) = 1
          /\ \A p \in at :
               /\ \E i \in PositionsOf(add, name) : Result[category][p] = add[i]
               /\ p = Len(Result[category])

\* the class User was in the diagram, was removed and added with a new
\* definition in one change-set, and the new definition is in the result
ReplacedInOneChangeSet ==
  /\ EntitiesMerged
  /\ "User" \in RemovedAndAdded("classes")
  /\ ItemsBefore("classes") = << EntityUser, EntityOrder >>
  /\ Given("classes", "add") = << EntityUserNew >>
  /\ Result["classes"] = << EntityOrder, EntityUserNew >>

(***************************************************************************)
(* The chat WebSocket: routers/chat.py websocket_chat_endpoint next to the *)
(* create, load and close requests.  chat.open: the endpoint is in its     *)
(* receive loop; chat.project: its local current_project_global, the       *)
(* Project it read from app_state when the socket was opened; chat.files:  *)
(* by project id, the files of the output directory of the project (name   *)
(* to content).  The agents are the source of the content: whether they    *)
(* return any is an input of the command.                                  *)
(***************************************************************************)
CommandNames == { "create_text_document", "edit_document", "generate_diagram", "generate_prototype" }

\* the output directory of a project
OutputFilesOf(c, id) == IF id \in DOMAIN c.files THEN c.files[id] ELSE << >>

\* lines 84, 171, 189: the file name a generating command asks for
CommandFileName(command_name) ==
  CASE command_name = "create_text_document" -> "title.md"
    [] command_name = "generate_diagram" -> "name_prompt_diagram.json"
    [] command_name = "generate_prototype" -> "name_prototype.html"

\* Project.create_file in the output directory: the name gets the first
\* counter that makes it free (0: the name itself)
FreeOutputName(dir, file_name) ==
  LET counter == CHOOSE n \in 0..Cardinality(DOMAIN dir) :
                   /\ << file_name, n >> \notin DOMAIN dir
                   /\ \A k \in 0..(n - 1) : << file_name, k >> \in DOMAIN dir
  IN  << file_name, counter >>

\* lines 25-41: the endpoint accepts the socket for the project that is
\* current and has a chat agent, and keeps the Project in a local variable.
\* Result: [st, ok].
websocket_chat_endpoint(a, c, project_id) ==
  IF a.current_project = NoCurrent \/ a.current_project.ident.id # project_id
    THEN [ st |-> c, ok |-> FALSE ]
  ELSE IF project_id \notin a.chat_agents THEN [ st |-> c, ok |-> FALSE ]
  ELSE [ st |-> [ c EXCEPT !.open = TRUE, !.project = a.current_project ], ok |-> TRUE ]

\* lines 69-199: one command of the receive loop.  Result: [app, st, ok].
chat_command(a, c, command_name, filename, generated) ==
  LET project == c.project
      id == project.ident.id
      dir == OutputFilesOf(c, id)
      \* create_file and the edit branches rescan the project before
      \* save_metadata
      saved == [ a EXCEPT !.metadata =
                   SavedMetadata(a, [ project EXCEPT !.modified_date = a.now,
                                                     !.scanned = a.now ], "none") ]
  IN  IF command_name = "edit_document"
        THEN IF filename \notin DOMAIN dir \/ ~generated
               THEN [ app |-> a, st |-> c, ok |-> FALSE ]
               ELSE [ app |-> saved,
                      st |-> [ c EXCEPT !.files = SetItem(@, id, SetItem(dir, filename, "edited")) ],
                      ok |-> TRUE ]
      ELSE IF ~generated THEN [ app |-> a, st |-> c, ok |-> FALSE ]
      ELSE [ app |-> saved,
             st |-> [ c EXCEPT !.files =
                        SetItem(@, id,
                                SetItem(dir, FreeOutputName(dir, CommandFileName(command_name)),
                                        "generated")) ],
             ok |-> TRUE ]

\* the chat endpoint has taken a step at the time of the application; the
\* time passes with the commands
ChatDid(op, a, c, ok) ==
  /\ chat' = [ c EXCEPT !.last = [ op |-> op, ok |-> ok, at |-> app.now ] ]
  /\ app' = [ a EXCEPT !.now = IF op \in CommandNames THEN @ + 1 ELSE @ ]
  /\ UNCHANGED << projectVars, merge, manager, batch, typed, agent, handlers, tasks >>

ChatConnect ==
  /\ app.now <= MaxTime
  /\ ~chat.open
  /\ \E project_id \in KnownIds :
       \E r \in { websocket_chat_endpoint(app, chat, project_id) } :
         ChatDid("connect", app, r.st, r.ok)

\* lines 201-210: the client has gone and the endpoint returns
ChatDisconnect ==
  /\ app.now <= MaxTime
  /\ chat.open
  /\ ChatDid("disconnect", app, [ chat EXCEPT !.open = FALSE, !.project = NoCurrent ], TRUE)

ChatCommand ==
  /\ app.now <= MaxTime
  /\ chat.open
  /\ \E command_name \in CommandNames, generated \in BOOLEAN :
       \E filename \in IF command_name = "edit_document"
                         THEN { << "title.md", 0 >>, << "name_prototype.html", 0 >> }
                         ELSE { << >> } :
         \E r \in { chat_command(app, chat, command_name, filename, generated) } :
           ChatDid(command_name, r.app, r.st, r.ok)

NextChat ==
  \/ CreateProject
  \/ LoadProjectById
  \/ CloseProject
  \/ ChatConnect
  \/ ChatDisconnect
  \/ ChatCommand

SpecChat == Init /\ [][NextChat]_vars

\* C30 as stated: a command received on a chat WebSocket only creates or
\* modifies files of the project that is the current project of the
\* application when the command is processed, also after the project was
\* closed or another one was created or loaded while the socket stayed open.
CommandsWriteCurrentProjectOnly ==
  [][ ( chat'.last.op \in CommandNames /\ chat'.last.at = app.now )
        => \A id \in DOMAIN chat'.files :
             OutputFilesOf(chat', id) # OutputFilesOf(chat, id)
               => /\ app.current_project # NoCurrent
                  /\ app.current_project.ident.id = id ]_vars

(***************************************************************************)
(* Concurrent create_file calls and upload handlers on one Project.  The   *)
(* event loop runs one coroutine at a time and can switch to another one   *)
(* where a coroutine awaits: a call is a sequence of steps, one for each   *)
(* stretch of code between two awaits.  tasks.running: the calls that are  *)
(* under way (kind, the await they stand at, the name and the path they    *)
(* wrote, the result of add_file, the calls that were under way when they  *)
(* began); tasks.done: the calls that returned.                            *)
(***************************************************************************)
TaskKinds == { "create_file", "upload_excel" }

\* each call writes a content of its own
TaskContent(i) == Digits(i)

\* a write that takes the name as given, whatever is on disk
create_file_write_in_place(s, file_name, file_type, content, t) ==
  IF file_type \notin Buckets \/ file_type \notin s.dirs
    THEN [ st |-> s, ok |-> FALSE, name |-> << >> ]
  ELSE [ st |-> [ s EXCEPT !.disk[file_type] = Put(@, file_name, NewFile(content, t)),
                           !.log = Append(@, Event("disk")) ],
         ok |-> TRUE, name |-> file_name ]

\* Project.py lines 193-218 (files.py lines 51-63 for the upload): the
\* while loop finds the free name and open(..., 'w') writes the file, with
\* no await in between.  Result: [st, ok, name].
create_file_write(s, file_name, file_type, content, t) ==
  IF file_type \notin Buckets \/ file_type \notin s.dirs
    THEN [ st |-> s, ok |-> FALSE, name |-> << >> ]
  ELSE Only({ [ st |-> [ s EXCEPT !.disk[file_type] =
                                    Put(@, current_file_name, NewFile(content, t)),
                                  !.log = Append(@, Event("disk")) ],
                ok |-> TRUE, name |-> current_file_name ] :
              current_file_name \in { FreeName(s, file_type, file_name, 0) } })

\* files.py lines 48-63: upload_excel up to its first await
upload_excel_write(s, file_name, content, t) ==
  create_file_write([ s EXCEPT !.dirs = @ \cup { "project", "input" } ],
                    file_name, "input", content, t)

\* Project.add_file up to its await, lines 235-248: "no" and "yes" are its
\* results False and True, "scan" is the await of scan_and_update_files
add_file_checks(s, file_path, file_type) ==
  IF file_type \notin Buckets THEN "no"
  ELSE IF ~Exists(s, file_path) THEN "no"
  ELSE IF Tracked(s, file_type, file_path) THEN "yes"
  ELSE "scan"

\* the calls that have not been made yet
FreeTasks == (1..MaxTasks) \ (DOMAIN tasks.running \cup DOMAIN tasks.done)

\* the variables a step of a call leaves alone
TaskFrame ==
  UNCHANGED << ret, now, loaded, ext, merge, manager, app, batch, typed, agent, chat, handlers >>

\* the call is made and runs up to await add_file (for the upload: up to
\* await file.close()); a create_file whose open raises returns None
TaskBegin ==
  \E i \in FreeTasks, kind \in TaskKinds :
    \E w \in { IF kind = "create_file"
                 THEN create_file_write(Cur, N_xls, "input", TaskContent(i), now)
                 ELSE upload_excel_write(Cur, N_xls, TaskContent(i), now) } :
      /\ Become(w.st)
      /\ tasks' = IF w.ok
                    THEN [ tasks EXCEPT !.running =
                             SetItem(@, i, [ kind |-> kind, pc |-> "add_file", name |-> w.name,
                                             path |-> FilePath(ident, "input", w.name),
                                             added |-> FALSE,
                                             beside |-> DOMAIN tasks.running ]) ]
                    ELSE [ tasks EXCEPT !.done =
                             SetItem(@, i, [ kind |-> kind, ok |-> FALSE, path |-> NoPath,
                                             beside |-> DOMAIN tasks.running ]) ]
      /\ TaskFrame

\* add_file runs up to await self.scan_and_update_files()
TaskAddFile ==
  \E i \in DOMAIN tasks.running :
    /\ tasks.running[i].pc = "add_file"
    /\ \E c \in { add_file_checks(Cur, tasks.running[i].path, "input") } :
         tasks' = [ tasks EXCEPT !.running[i].pc = IF c = "scan" THEN "scan" ELSE "return",
                                 !.running[i].added = (c = "yes") ]
    /\ Become(Cur)
    /\ TaskFrame

\* the rescan of add_file, lines 250-254
TaskScan ==
  \E i \in DOMAIN tasks.running, order \in Orders :
    /\ tasks.running[i].pc = "scan"
    /\ \E r \in { RescanInTry(Cur, order, Faults(NoFault, FALSE), now) } :
         /\ Become(r.st)
         /\ tasks' = [ tasks EXCEPT !.running[i].pc = "return", !.running[i].added = r.ok ]
    /\ TaskFrame

\* add_file has returned: create_file returns the path (Project.py line
\* 221), upload_excel raises when the file was not added and saves the
\* metadata and answers otherwise (files.py lines 77-92)
TaskReturn ==
  \E i \in DOMAIN tasks.running :
    LET task == tasks.running[i]
        ok == task.kind = "create_file" \/ task.added
    IN  /\ task.pc = "return"
        /\ tasks' = [ running |-> [ j \in DOMAIN tasks.running \ { i } |-> tasks.running[j] ],
                      done |-> SetItem(tasks.done, i,
                                       [ kind |-> task.kind, ok |-> ok, path |-> task.path,
                                         beside |-> task.beside ]) ]
        /\ IF task.kind = "upload_excel" /\ task.added
             THEN Become(save_metadata(Cur, "none").st)
             ELSE Become(Cur)
        /\ TaskFrame

NextTasks == CreateDirs \/ TaskBegin \/ TaskAddFile \/ TaskScan \/ TaskReturn

SpecTasks == Init /\ [][NextTasks]_vars

\* the calls that returned a path (create_file) or answered success (upload)
Successful == { i \in DOMAIN tasks.done : tasks.done[i].ok }

HandlerKinds == { "create_project", "load_project" }

\* the application as the answer to a request leaves it
AfterRequest(op, r) ==
  [ r.st EXCEPT !.now = @ + 1,
                !.last = [ op |-> op, ok |-> r.ok, fault |-> "none", detail |-> r.detail ] ]

\* the application at the time the handlers arrive: just started, with one
\* project created, or with a second one created after it
AppWithOneProject ==
  AfterRequest("create_project", create_project(NewApp, << "A" >>, BaseDir, "none"))
AppWithTwoProjects ==
  AfterRequest("create_project",
               create_project(AppWithOneProject, << "B", " ", "2" >>, BaseDir, "none"))
StartedApps == { NewApp, AppWithOneProject, AppWithTwoProjects }

InitHandlers ==
  /\ InitWith(InitState(ProjectName, BaseDir))
  /\ merge = NotCalled
  /\ manager = NewManager
  /\ app \in StartedApps
  /\ batch = NoResponse
  /\ typed = NoPrompt
  /\ agent = NewAgent
  /\ chat = NoChat
  /\ handlers = NoHandlers
  /\ tasks = NoTasks

\* close_project_internal, lines 312-321: the project to close is read from
\* app_state and dated, up to await project_to_close.scan_and_update_files()
close_begin(a) ==
  [ a EXCEPT !.current_project.modified_date = a.now ]

\* close_project_internal, lines 323-333, for the local project_to_close:
\* save_metadata, the registry entry, and app_state is cleared
close_end(a, project_to_close) ==
  LET projects_registry == load_projects_registry(a.registry, "none")
      listed == \E i \in 1..Len(projects_registry) :
                  projects_registry[i].id = project_to_close.ident.id
  IN  [ a EXCEPT
          !.metadata = SavedMetadata(a, project_to_close, "none"),
          !.registry =
            IF listed
              THEN save_projects_registry(
                     a.registry,
                     Touched(projects_registry, project_to_close.ident.id,
                             project_to_close.modified_date, 1),
                     "none")
              ELSE a.registry,
          !.current_project = NoCurrent,
          !.chat_agents = remove_chat_agent_for_project(@, project_to_close.ident.id) ]

\* create_project, lines 110-128: the new project becomes current, gets its
\* chat agent and its registry entry
create_publish(a, project) ==
  [ a EXCEPT
      !.current_project = project,
      !.chat_agents = @ \cup { project.ident.id },
      !.registry = save_projects_registry(
                     a.registry,
                     Append(load_projects_registry(a.registry, "none"), RegistryEntry(project)),
                     "none") ]

\* the handlers that have not arrived yet
FreeHandlers == (1..MaxHandlers) \ (DOMAIN handlers.running \cup DOMAIN handlers.done)

\* a handler has taken a step
HandlerDid(a, h) ==
  /\ app' = a
  /\ handlers' = h
  /\ UNCHANGED << projectVars, merge, manager, batch, typed, agent, chat, tasks >>

\* the handlers with handler i at pc, its local variables as given
Standing(hs, i, kind, arg, pc, project_to_close, project) ==
  [ hs EXCEPT !.running =
      SetItem(@, i, [ kind |-> kind, arg |-> arg, pc |-> pc,
                      project_to_close |-> project_to_close, project |-> project ]) ]

\* the handlers with the answer of handler i
Answers(hs, i, kind, ok) ==
  [ running |-> [ j \in DOMAIN hs.running \ { i } |-> hs.running[j] ],
    done |-> SetItem(hs.done, i, [ kind |-> kind, ok |-> ok ]) ]

\* create_project, lines 103-107: Project(...) takes its id from the clock
\* and the directories are made, up to await project.scan_and_update_files().
\* Result: [app, handlers].
create_construct(a, hs, i, project_name, project_to_close) ==
  LET project == [ ident |-> NewProject(project_name, BaseDir, a.now),
                   modified_date |-> a.now, scanned |-> a.now ]
  IN  [ app |-> [ a EXCEPT !.now = @ + 1 ],
        handlers |-> Standing(hs, i, "create_project", project_name, "new_scan",
                              project_to_close, project) ]

\* load_project, lines 240-277: the metadata file is read, the project
\* becomes current and gets its chat agent, up to the await of its scan.
\* Result: [app, handlers].
load_current(a, hs, i, project_id, project_to_close) ==
  IF \/ project_id \notin DOMAIN a.metadata
     \/ a.metadata[project_id].kind # "json"
     \/ a.metadata[project_id].project.ident.id # project_id
    THEN [ app |-> a, handlers |-> Answers(hs, i, "load_project", FALSE) ]
  ELSE LET loaded_project == a.metadata[project_id].project
       IN  [ app |-> [ a EXCEPT !.current_project = loaded_project,
                                !.chat_agents = @ \cup { project_id } ],
             handlers |-> Standing(hs, i, "load_project", project_id, "loaded_scan",
                                   project_to_close, loaded_project) ]

\* a handler has taken the step that r is the result of
Stepped(r) == HandlerDid(r.app, r.handlers)

\* create_project, lines 84-107: with a current project, up to the await
\* inside close_project_internal; with none, up to the await of line 107
CreateArrives ==
  \E i \in FreeHandlers, project_name \in ProjectNames :
    IF app.current_project # NoCurrent
      THEN \E a \in { close_begin(app) } :
             HandlerDid(a, Standing(handlers, i, "create_project", project_name, "close_scan",
                                    a.current_project, NoCurrent))
      ELSE \E r \in { create_construct(app, handlers, i, project_name, NoCurrent) } :
             Stepped(r)

\* load_project, lines 229-277: the registry lookup; with a current project
\* of another id, up to the await inside close_project_internal; otherwise
\* up to the await of line 277
LoadArrives ==
  \E i \in FreeHandlers, project_id \in KnownIds :
    LET found == SelectSeq(load_projects_registry(app.registry, "none"),
                           LAMBDA e : e.id = project_id)
    IN  IF found = << >>
          THEN HandlerDid(app, Answers(handlers, i, "load_project", FALSE))
        ELSE IF app.current_project # NoCurrent /\ app.current_project.ident.id # project_id
          THEN \E a \in { close_begin(app) } :
                 HandlerDid(a, Standing(handlers, i, "load_project", project_id, "close_scan",
                                        a.current_project, NoCurrent))
        ELSE \E r \in { load_current(app, handlers, i, project_id, NoCurrent) } :
               Stepped(r)

\* close_project_internal, line 322: the rescan of project_to_close, which
\* is the object app_state refers to as long as its id is current
CloseScan ==
  \E i \in DOMAIN handlers.running :
    LET h == handlers.running[i]
        same == app.current_project # NoCurrent
                  /\ app.current_project.ident.id = h.project_to_close.ident.id
    IN  /\ h.pc = "close_scan"
        /\ HandlerDid(IF same THEN [ app EXCEPT !.current_project.scanned = app.now ] ELSE app,
                      [ handlers EXCEPT !.running[i].pc = "close_save",
                                        !.running[i].project_to_close.scanned = app.now ])

\* close_project_internal, lines 323-336, and the handler up to its next
\* await
CloseSave ==
  \E i \in DOMAIN handlers.running :
    LET h == handlers.running[i]
    IN  /\ h.pc = "close_save"
        /\ \E a \in { close_end(app, h.project_to_close) } :
             \E r \in { IF h.kind = "create_project"
                          THEN create_construct(a, handlers, i, h.arg, h.project_to_close)
                          ELSE load_current(a, handlers, i, h.arg, h.project_to_close) } :
               Stepped(r)

\* create_project, lines 107-108: the first scan of the project, up to
\* await project.save_metadata()
NewScan ==
  \E i \in DOMAIN handlers.running :
    LET h == handlers.running[i]
    IN  /\ h.pc = "new_scan"
        /\ HandlerDid(app, [ handlers EXCEPT !.running[i].pc = "publish" ])

\* create_project, lines 108-134: the metadata is saved, the project
\* becomes current and gets its chat agent and its registry entry
Publish ==
  \E i \in DOMAIN handlers.running :
    LET h == handlers.running[i]
    IN  /\ h.pc = "publish"
        /\ HandlerDid(create_publish([ app EXCEPT !.metadata =
                                         SavedMetadata(app, h.project, "none") ],
                                     h.project),
                      Answers(handlers, i, h.kind, TRUE))

\* load_project, lines 277-285: the scan and the save of the loaded
\* project, which is the object app_state refers to as long as its id is
\* current
LoadedScan ==
  \E i \in DOMAIN handlers.running :
    LET h == handlers.running[i]
        scanned == [ h.project EXCEPT !.modified_date = app.now, !.scanned = app.now ]
        same == app.current_project # NoCurrent
                  /\ app.current_project.ident.id = h.project.ident.id
        a == IF same THEN [ app EXCEPT !.current_project = scanned ] ELSE app
    IN  /\ h.pc = "loaded_scan"
        /\ HandlerDid([ a EXCEPT !.metadata = SavedMetadata(a, scanned, "none") ],
                      Answers(handlers, i, h.kind, TRUE))

NextHandlers ==
  \/ CreateArrives
  \/ LoadArrives
  \/ CloseScan
  \/ CloseSave
  \/ NewScan
  \/ Publish
  \/ LoadedScan

SpecHandlers == InitHandlers /\ [][NextHandlers]_vars

\* the step is the end of the close of the project that is current: a
\* handler whose project_to_close it is leaves line 323
ClosesCurrentProject ==
  \E i \in DOMAIN handlers.running :
    /\ handlers.running[i].pc = "close_save"
    /\ handlers.running[i].project_to_close.ident.id = app.current_project.ident.id
    /\ i \in DOMAIN handlers'.running => handlers'.running[i].pc # "close_save"

\* C26 as stated: when create_project and load_project handlers interleave
\* at their awaits, no project is dropped from current_project without
\* having been closed (metadata saved, registry updated), and once all
\* handlers have finished chat_agents holds no entry for a project that is
\* not current.
InterleavedHandlersKeepDiscipline ==
  [][ /\ StoppedBeingCurrent => ClosesCurrentProject
      /\ handlers'.running = << >> => app'.chat_agents \subseteq AgentsOf(app'.current_project) ]_vars

=============================================================================
